---- MODULE Spec2Model ----
(***************************************************************************)
(* A model of the metric-derivation and scoring pipeline of the stock      *)
(* analyst server: StockCalculator (calculator.py), the EPS cascade and    *)
(* the metric part of StockService.get_stock_info (service.py).            *)
(*                                                                         *)
(* Numbers.  The program computes on Python floats.  The model computes on *)
(* exact rationals <<n, d>> (d > 0, lowest terms); None, Python's absent   *)
(* value, is <<0, 0>>.  round(x, k) is Python's round-half-even, applied   *)
(* to the exact value.  Monetary amounts (market cap, net income, equity,  *)
(* assets, liabilities, revenue) are written in units of 1e8 currency      *)
(* units so that 1e12 fits the model checker's integers; every formula of  *)
(* the program that mixes them is a ratio of two amounts, except the       *)
(* market-cap tiers, which are scaled the same way.                        *)
(***************************************************************************)
EXTENDS Integers, Sequences, FiniteSets, TLC

VARIABLES info, stock, fdr_data, op, result, db, now, io, provider,
          master, token, pc

vars == <<info, stock, fdr_data, op, result, db, now, io, provider,
          master, token, pc>>

(***************************************************************************)
(* Exact rational arithmetic (Python float, idealised)                     *)
(***************************************************************************)
RECURSIVE GCD(_, _)
GCD(a, b) == IF b = 0 THEN a ELSE GCD(b, a % b)

Abs(n) == IF n < 0 THEN -n ELSE n

\* The rational n/d in lowest terms with a positive denominator (d # 0).
Rat(n, d) ==
    LET g == GCD(Abs(n), Abs(d))
        s == IF d < 0 THEN -1 ELSE 1
    IN  <<(s * n) \div g, (s * d) \div g>>

None == <<0, 0>>

\* A missing entry of a financial statement (pandas NaN).
NaN == <<1, 0>>

IsNone(x) == x = None

\* pandas.notna: neither None nor NaN.
NotNa(x) == x[2] # 0

\* Python truthiness of an Optional[float]: None and 0 are falsy.
Truthy(x) == x[2] # 0 /\ x[1] # 0

\* Python's `a or b`.
Or(a, b) == IF Truthy(a) THEN a ELSE b

Num(n) == <<n, 1>>

RAdd(a, b) == Rat(a[1] * b[2] + b[1] * a[2], a[2] * b[2])
RSub(a, b) == Rat(a[1] * b[2] - b[1] * a[2], a[2] * b[2])
RMul(a, b) == Rat(a[1] * b[1], a[2] * b[2])
RDiv(a, b) == Rat(a[1] * b[2], a[2] * b[1])
RLt(a, b) == a[1] * b[2] < b[1] * a[2]
RLe(a, b) == a[1] * b[2] <= b[1] * a[2]
RGt(a, b) == RLt(b, a)
RGe(a, b) == RLe(b, a)
RMax(a, b) == IF RLt(a, b) THEN b ELSE a
RMin(a, b) == IF RLt(b, a) THEN b ELSE a

Pow10(k) == IF k = 0 THEN 1 ELSE IF k = 1 THEN 10 ELSE 100

\* Python's round(x, k) for k in 0..2: to the nearest multiple of 10^-k,
\* a tie going to the even one.
Round(x, k) ==
    LET num == x[1] * Pow10(k)
        q   == num \div x[2]
        r   == num % x[2]
        m   == IF 2 * r < x[2] THEN q
               ELSE IF 2 * r > x[2] THEN q + 1
               ELSE IF q % 2 = 0 THEN q ELSE q + 1
    IN  Rat(m, Pow10(k))

(***************************************************************************)
(* The record the calculator reads: yfinance-style keys and the provider's *)
(* standardized keys side by side (service.py's calculator format).  A key *)
(* that is missing and a key that holds None are both None here.           *)
(***************************************************************************)
Blank ==
    [ trailingPE |-> None, forwardPE |-> None, netIncomeToCommon |-> None,
      priceToBook |-> None, bookValue |-> None,
      totalStockholderEquity |-> None, totalEquity |-> None,
      totalAssets |-> None, totalLiabilities |-> None,
      returnOnEquity |-> None, profitMargins |-> None, totalRevenue |-> None,
      trailingEps |-> None, forwardEps |-> None, sharesOutstanding |-> None,
      epsCurrentYear |-> None, dividendRate |-> None, dividendYield |-> None,
      currentPrice |-> None, regularMarketPrice |-> None, open |-> None,
      marketCap |-> None, previousClose |-> None,
      fiftyTwoWeekLow |-> None, fiftyTwoWeekHigh |-> None,
      targetMeanPrice |-> None, previous_close |-> None,
      target_mean_price |-> None,
      current_price |-> None, market_cap |-> None, pe_ratio |-> None,
      pb_ratio |-> None, roe |-> None, eps |-> None, dividend_yield |-> None,
      beta |-> None, fifty_two_week_low |-> None, fifty_two_week_high |-> None ]

\* dict.get(key, 0): a missing key reads as 0.
Get0(x) == IF IsNone(x) THEN Num(0) ELSE x

(***************************************************************************)
(* ScoreEngine: calculator.py, calculate_profit_margin .. calculate_score  *)
(***************************************************************************)
calculate_profit_margin(i) ==
    IF ~IsNone(i.profitMargins) THEN i.profitMargins
    ELSE IF ~IsNone(i.netIncomeToCommon) /\ ~IsNone(i.totalRevenue)
            /\ RGt(i.totalRevenue, Num(0))
         THEN RDiv(i.netIncomeToCommon, i.totalRevenue)
         ELSE None

\* _score_profitability with the 10..20 segment starting at 40 instead of 50.
_score_profitability_gap(roe, profit_margin) ==
    LET score(x) ==
            IF IsNone(x) THEN Num(50)
            ELSE IF RGt(x, Num(20)) THEN Num(100)
            ELSE IF RGe(x, Num(10))
                 THEN RAdd(Num(40), RMul(RDiv(RSub(x, Num(10)), Num(10)), Num(50)))
            ELSE IF RGe(x, Num(0)) THEN RMul(RDiv(x, Num(10)), Num(50))
            ELSE Num(0)
        pct == IF IsNone(profit_margin) THEN None ELSE RMul(profit_margin, Num(100))
    IN  Round(RAdd(RMul(score(roe), Rat(1, 2)), RMul(score(pct), Rat(1, 2))), 1)

_score_profitability(roe, profit_margin) ==
    LET roe_score ==
            IF IsNone(roe) THEN Num(50)
            ELSE IF RGt(roe, Num(20)) THEN Num(100)
            ELSE IF RGe(roe, Num(10))
                 THEN RAdd(Num(50), RMul(RDiv(RSub(roe, Num(10)), Num(10)), Num(50)))
            ELSE IF RGe(roe, Num(0)) THEN RMul(RDiv(roe, Num(10)), Num(50))
            ELSE Num(0)
        pct == RMul(profit_margin, Num(100))
        profit_margin_score ==
            IF IsNone(profit_margin) THEN Num(50)
            ELSE IF RGt(pct, Num(20)) THEN Num(100)
            ELSE IF RGe(pct, Num(10))
                 THEN RAdd(Num(50), RMul(RDiv(RSub(pct, Num(10)), Num(10)), Num(50)))
            ELSE IF RGe(pct, Num(0)) THEN RMul(RDiv(pct, Num(10)), Num(50))
            ELSE Num(0)
    IN  Round(RAdd(RMul(roe_score, Rat(1, 2)), RMul(profit_margin_score, Rat(1, 2))), 1)

\* _score_valuation scoring a ratio that is not > 0 as 0 / 10 or 0 / 20 would
\* be (100) instead of the neutral 50.
_score_valuation_zero_is_cheap(pe_ratio, pb_ratio) ==
    LET pe_score ==
            IF IsNone(pe_ratio) THEN Num(50)
            ELSE IF RLe(pe_ratio, Num(10))
                 THEN RSub(Num(100), RMul(RDiv(RMax(pe_ratio, Num(0)), Num(10)), Num(20)))
            ELSE IF RLe(pe_ratio, Num(20))
                 THEN RSub(Num(80), RMul(RDiv(RSub(pe_ratio, Num(10)), Num(10)), Num(30)))
            ELSE IF RLe(pe_ratio, Num(30))
                 THEN RSub(Num(50), RMul(RDiv(RSub(pe_ratio, Num(20)), Num(10)), Num(30)))
            ELSE RMax(Num(0),
                      RSub(Num(20), RMul(RDiv(RSub(pe_ratio, Num(30)), Num(10)), Num(10))))
        pb_score ==
            IF IsNone(pb_ratio) THEN Num(50)
            ELSE IF RLe(pb_ratio, Num(1))
                 THEN RSub(Num(100), RMul(RMax(pb_ratio, Num(0)), Num(20)))
            ELSE IF RLe(pb_ratio, Num(2))
                 THEN RSub(Num(80), RMul(RSub(pb_ratio, Num(1)), Num(30)))
            ELSE IF RLe(pb_ratio, Num(3))
                 THEN RSub(Num(50), RMul(RSub(pb_ratio, Num(2)), Num(30)))
            ELSE RMax(Num(0), RSub(Num(20), RMul(RSub(pb_ratio, Num(3)), Num(5))))
    IN  Round(RAdd(RMul(pe_score, Rat(1, 2)), RMul(pb_score, Rat(1, 2))), 1)

_score_valuation(pe_ratio, pb_ratio) ==
    LET pe_score ==
            IF IsNone(pe_ratio) \/ ~RGt(pe_ratio, Num(0)) THEN Num(50)
            ELSE IF RLe(pe_ratio, Num(10))
                 THEN RSub(Num(100), RMul(RDiv(pe_ratio, Num(10)), Num(20)))
            ELSE IF RLe(pe_ratio, Num(20))
                 THEN RSub(Num(80), RMul(RDiv(RSub(pe_ratio, Num(10)), Num(10)), Num(30)))
            ELSE IF RLe(pe_ratio, Num(30))
                 THEN RSub(Num(50), RMul(RDiv(RSub(pe_ratio, Num(20)), Num(10)), Num(30)))
            ELSE RMax(Num(0),
                      RSub(Num(20), RMul(RDiv(RSub(pe_ratio, Num(30)), Num(10)), Num(10))))
        pb_score ==
            IF IsNone(pb_ratio) \/ ~RGt(pb_ratio, Num(0)) THEN Num(50)
            ELSE IF RLe(pb_ratio, Num(1))
                 THEN RSub(Num(100), RMul(pb_ratio, Num(20)))
            ELSE IF RLe(pb_ratio, Num(2))
                 THEN RSub(Num(80), RMul(RSub(pb_ratio, Num(1)), Num(30)))
            ELSE IF RLe(pb_ratio, Num(3))
                 THEN RSub(Num(50), RMul(RSub(pb_ratio, Num(2)), Num(30)))
            ELSE RMax(Num(0), RSub(Num(20), RMul(RSub(pb_ratio, Num(3)), Num(5))))
    IN  Round(RAdd(RMul(pe_score, Rat(1, 2)), RMul(pb_score, Rat(1, 2))), 1)

\* _score_momentum on a 0..100 scale, without the base of 20.
_score_momentum_from_zero(current_price, fifty_two_week_low, fifty_two_week_high) ==
    IF IsNone(fifty_two_week_low) \/ IsNone(fifty_two_week_high)
       \/ RGe(fifty_two_week_low, fifty_two_week_high)
    THEN Num(50)
    ELSE Round(RMul(RDiv(RSub(current_price, fifty_two_week_low),
                         RSub(fifty_two_week_high, fifty_two_week_low)), Num(100)), 1)

_score_momentum(current_price, fifty_two_week_low, fifty_two_week_high) ==
    IF IsNone(fifty_two_week_low) \/ IsNone(fifty_two_week_high)
       \/ RGe(fifty_two_week_low, fifty_two_week_high)
    THEN Num(50)
    ELSE LET price_range == RSub(fifty_two_week_high, fifty_two_week_low)
             position_ratio == RDiv(RSub(current_price, fifty_two_week_low), price_range)
         IN  IF RLe(price_range, Num(0)) THEN Num(50)
             ELSE Round(RAdd(Num(20), RMul(position_ratio, Num(80))), 1)

\* The market-cap tiers 1e12, 1e11 and 1e10, in units of 1e8.
CapTier100 == 10000
CapTier80 == 1000
CapTier60 == 100

\* _score_stability scoring an absent market cap like the lowest tier (40).
_score_stability_absent_is_small(market_cap, beta) ==
    LET market_cap_score ==
            IF IsNone(market_cap) THEN Num(40)
            ELSE IF RGe(market_cap, Num(CapTier100)) THEN Num(100)
            ELSE IF RGe(market_cap, Num(CapTier80)) THEN Num(80)
            ELSE IF RGe(market_cap, Num(CapTier60)) THEN Num(60)
            ELSE Num(40)
        beta_score ==
            IF IsNone(beta) THEN Num(50)
            ELSE IF RLe(Rat(8, 10), beta) /\ RLe(beta, Rat(12, 10)) THEN Num(100)
            ELSE IF RLe(Rat(5, 10), beta) /\ RLt(beta, Rat(8, 10))
                 THEN RAdd(Num(80),
                           RMul(RDiv(RSub(beta, Rat(5, 10)), Rat(3, 10)), Num(20)))
            ELSE IF RLt(Rat(12, 10), beta) /\ RLe(beta, Rat(15, 10))
                 THEN RSub(Num(100),
                           RMul(RDiv(RSub(beta, Rat(12, 10)), Rat(3, 10)), Num(20)))
            ELSE IF RLt(beta, Rat(5, 10))
                 THEN RAdd(Num(60), RMul(RDiv(beta, Rat(5, 10)), Num(20)))
            ELSE RMax(Num(0), RSub(Num(80), RMul(RSub(beta, Rat(15, 10)), Num(10))))
    IN  Round(RAdd(RMul(market_cap_score, Rat(1, 2)), RMul(beta_score, Rat(1, 2))), 1)

_score_stability(market_cap, beta) ==
    LET market_cap_score ==
            IF IsNone(market_cap) THEN Num(50)
            ELSE IF RGe(market_cap, Num(CapTier100)) THEN Num(100)
            ELSE IF RGe(market_cap, Num(CapTier80)) THEN Num(80)
            ELSE IF RGe(market_cap, Num(CapTier60)) THEN Num(60)
            ELSE Num(40)
        beta_score ==
            IF IsNone(beta) THEN Num(50)
            ELSE IF RLe(Rat(8, 10), beta) /\ RLe(beta, Rat(12, 10)) THEN Num(100)
            ELSE IF (RLe(Rat(5, 10), beta) /\ RLt(beta, Rat(8, 10)))
                    \/ (RLt(Rat(12, 10), beta) /\ RLe(beta, Rat(15, 10)))
                 THEN IF RLt(beta, Num(1))
                      THEN RAdd(Num(80),
                                RMul(RDiv(RSub(beta, Rat(5, 10)), Rat(3, 10)), Num(20)))
                      ELSE RSub(Num(100),
                                RMul(RDiv(RSub(beta, Rat(12, 10)), Rat(3, 10)), Num(20)))
            ELSE IF RLt(beta, Rat(5, 10))
                 THEN RAdd(Num(60), RMul(RDiv(beta, Rat(5, 10)), Num(20)))
            ELSE RMax(Num(0), RSub(Num(80), RMul(RSub(beta, Rat(15, 10)), Num(10))))
    IN  Round(RAdd(RMul(market_cap_score, Rat(1, 2)), RMul(beta_score, Rat(1, 2))), 1)

\* The weighted sum of calculate_score, before the clamp (calculator.py 705-710).
WeightedSum(p, v, m, s) ==
    RAdd(RAdd(RMul(p, Rat(4, 10)), RMul(v, Rat(3, 10))),
         RAdd(RMul(m, Rat(2, 10)), RMul(s, Rat(1, 10))))

\* calculate_score with the clamp of line 713 left out.
calculate_score_unclamped(stock_data, roe, pe_ratio, pb_ratio, market_cap, beta, i) ==
    Round(WeightedSum(_score_profitability(roe, calculate_profit_margin(i)),
                      _score_valuation(pe_ratio, pb_ratio),
                      _score_momentum(Get0(stock_data.current_price),
                                      stock_data.fifty_two_week_low,
                                      stock_data.fifty_two_week_high),
                      _score_stability(market_cap, beta)), 1)

\* calculate_score with the weights of profitability and valuation exchanged.
calculate_score_swapped(stock_data, roe, pe_ratio, pb_ratio, market_cap, beta, i) ==
    Round(RMax(Num(0), RMin(Num(100),
          WeightedSum(_score_valuation(pe_ratio, pb_ratio),
                      _score_profitability(roe, calculate_profit_margin(i)),
                      _score_momentum(Get0(stock_data.current_price),
                                      stock_data.fifty_two_week_low,
                                      stock_data.fifty_two_week_high),
                      _score_stability(market_cap, beta)))), 1)

calculate_score(stock_data, roe, pe_ratio, pb_ratio, market_cap, beta, i) ==
    LET profit_margin == calculate_profit_margin(i)
        profitability_score == _score_profitability(roe, profit_margin)
        valuation_score == _score_valuation(pe_ratio, pb_ratio)
        current_price == Get0(stock_data.current_price)
        momentum_score == _score_momentum(current_price,
                                          stock_data.fifty_two_week_low,
                                          stock_data.fifty_two_week_high)
        stability_score == _score_stability(market_cap, beta)
        total_score == WeightedSum(profitability_score, valuation_score,
                                   momentum_score, stability_score)
    IN  Round(RMax(Num(0), RMin(Num(100), total_score)), 1)

(***************************************************************************)
(* The cache table stock_analysis_logs (models/stock.py), one row or no    *)
(* row per upper-cased ticker, the clock datetime.utcnow() and the trace   *)
(* of the cache and provider calls a service call makes.                   *)
(***************************************************************************)
\* The upper-cased tickers the table is keyed by.
Keys == {"AAPL", "005930.KS", "035720.KQ", "ZZZZ"}

NoRow == [updated_at |-> -1]

EmptyTable == [k \in Keys |-> NoRow]

\* The requests in flight, by name.
Requests == {"r1", "r2"}

\* The in-process lookup tables before anything loaded them: the class-level
\* caches of StockProvider (provider.py 17-20) and the maps of the
\* KisMasterService instance (kis_master_service.py 124-128), each by the
\* tickers it holds.
NoTables ==
    [ _is_cache_loaded |-> FALSE, _ticker_cache |-> {},
      _fundamental_cache |-> {}, _loaded |-> FALSE,
      _name_to_code |-> {}, _code_to_detail |-> {} ]

\* An AccessTokenManager just constructed, no token file on disk
\* (token_manager.py 33-34): "" stands for no token, -1 for no time.
NoFile == [access_token |-> "", timestamp |-> -1]

NoToken == [_access_token |-> "", _token_expires_at |-> -1, file |-> NoFile]

Idle == [r \in Requests |-> [at |-> "idle"]]

\* Outside the specifications of the tables, the token manager and the
\* concurrent requests nothing is loaded, saved or in flight.
NoService ==
    /\ master = NoTables
    /\ token = NoToken
    /\ pc = Idle

\* The calculator, the formatter and the provider's pure steps have no
\* session: the table stays empty, the clock and the trace stay untouched.
\* The service holds the provider it was built with, StockProvider when none
\* is given (service.py 31).
NoCache ==
    /\ db = EmptyTable
    /\ now = 0
    /\ io = <<>>
    /\ provider = "StockProvider"
    /\ NoService

(***************************************************************************)
(* Operations on the record, one action per calculator call                *)
(***************************************************************************)
\* One call of a calculator operation on the drawn record.  The operations are
\* pure functions of their arguments, so a behaviour is one call on one record.
Apply(name, value) ==
    /\ op = "init"
    /\ op' = name
    /\ result' = value
    /\ UNCHANGED <<info, stock, fdr_data, db, now, io, provider,
                   master, token, pc>>

CalculateScore ==
    Apply("calculate_score",
          calculate_score(info, info.roe, info.pe_ratio, info.pb_ratio,
                          info.market_cap, info.beta, info))

ScoreProfitability ==
    Apply("_score_profitability",
          _score_profitability(info.roe, calculate_profit_margin(info)))

ScoreValuation ==
    Apply("_score_valuation", _score_valuation(info.pe_ratio, info.pb_ratio))

ScoreMomentum ==
    Apply("_score_momentum",
          _score_momentum(Get0(info.current_price), info.fifty_two_week_low,
                          info.fifty_two_week_high))

ScoreStability ==
    Apply("_score_stability", _score_stability(info.market_cap, info.beta))

(***************************************************************************)
(* SpecScore: the score engine over a grid of inputs                       *)
(***************************************************************************)
\* Prices tried are the multiples of 55 up to MaxPriceStep * 55, and 1000.
MaxPriceStep == 2

NoStock == [balance_sheet |-> <<>>, income_stmt |-> <<>>]

NoFdr == [per |-> None, pbr |-> None, dividend_yield |-> None]

RoeInputs == {None, Num(-5), Num(18), Num(25)}
MarginInputs == {<<None, None, None>>, <<Rat(15, 100), None, None>>,
                 <<None, Num(-10), Num(100)>>}
PeInputs == {None, Num(0), Num(12), Num(500)}
PbInputs == {None, Rat(12, 10), Num(100)}
CapInputs == {None, Num(50), Num(5000)}
BetaInputs == {None, Num(-10), Num(1), Num(3)}
PriceInputs == {None, Num(1000)} \cup {Num(55 * k) : k \in 1..MaxPriceStep}
RangeInputs == {<<None, None>>, <<Num(80), Num(120)>>, <<Num(120), Num(80)>>}

InitScore ==
    /\ \E roe \in RoeInputs, pm \in MarginInputs, pe \in PeInputs, pb \in PbInputs,
          cap \in CapInputs, beta \in BetaInputs, price \in PriceInputs,
          range \in RangeInputs :
         info = [Blank EXCEPT !.roe = roe, !.profitMargins = pm[1],
                              !.netIncomeToCommon = pm[2], !.totalRevenue = pm[3],
                              !.pe_ratio = pe, !.pb_ratio = pb, !.market_cap = cap,
                              !.beta = beta, !.current_price = price,
                              !.fifty_two_week_low = range[1],
                              !.fifty_two_week_high = range[2]]
    /\ stock = NoStock
    /\ fdr_data = NoFdr
    /\ op = "init"
    /\ result = None
    /\ NoCache

NextScore ==
    \/ CalculateScore
    \/ ScoreProfitability
    \/ ScoreValuation
    \/ ScoreMomentum
    \/ ScoreStability

SpecScore == InitScore /\ [][NextScore]_vars

InRange(x) == RLe(Num(0), x) /\ RLe(x, Num(100))

\* The four sub-scores of the current record, as calculate_score computes them.
SubProfitability == _score_profitability(info.roe, calculate_profit_margin(info))
SubValuation == _score_valuation(info.pe_ratio, info.pb_ratio)
SubMomentum ==
    _score_momentum(Get0(info.current_price), info.fifty_two_week_low,
                    info.fifty_two_week_high)
SubStability == _score_stability(info.market_cap, info.beta)
SubWeighted == WeightedSum(SubProfitability, SubValuation, SubMomentum, SubStability)

\* C1: whatever the inputs (absent or finite, of either sign, the price inside
\* or outside the 52-week range), the total score calculate_score returns is
\* in [0, 100].
C1_TotalInRange == op = "calculate_score" => InRange(result)

\* C1 witness: calculate_score has returned 100 for inputs whose weighted sum
\* exceeds 100, and the record is one whose momentum leaves [0, 100].
C1_Witness ==
    /\ op = "calculate_score"
    /\ RGt(SubWeighted, Num(100))
    /\ result = Num(100)

\* C2: each of the four sub-scores is in [0, 100] for every combination of
\* absent or finite inputs (any sign of beta, the price inside or outside the
\* 52-week range).  The code does not clamp the momentum and stability scores.
C2_SubScoresInRange ==
    op \in {"_score_profitability", "_score_valuation", "_score_momentum",
            "_score_stability"} => InRange(result)

RAbs(x) == IF x[1] < 0 THEN <<-x[1], x[2]>> ELSE x

\* The record of the spec's end-to-end scenario: roe 18, no profit margin,
\* pe 12, pb 1.2, price 110 in the 52-week range [80, 120], market cap 5e11,
\* beta 1.0.
Scenario ==
    [Blank EXCEPT !.roe = Num(18), !.pe_ratio = Num(12), !.pb_ratio = Rat(12, 10),
                  !.current_price = Num(110), !.fifty_two_week_low = Num(80),
                  !.fifty_two_week_high = Num(120), !.market_cap = Num(5000),
                  !.beta = Num(1)]

\* C3: the total is 0.4 profitability + 0.3 valuation + 0.2 momentum +
\* 0.1 stability of the same inputs, clamped to [0, 100] and rounded to one
\* decimal (a multiple of 0.1 at most 0.05 away from the clamped sum); on the
\* scenario record the sub-scores are 70, 74, 80, 90 and the total is 75.2.
C3_TotalIsClampedWeightedSum ==
    op = "calculate_score" =>
        /\ result[2] \in {1, 2, 5, 10}
        /\ RLe(RAbs(RSub(result, RMax(Num(0), RMin(Num(100), SubWeighted)))),
               Rat(1, 20))
        /\ info = Scenario =>
              /\ SubProfitability = Num(70)
              /\ SubValuation = Num(74)
              /\ SubMomentum = Num(80)
              /\ SubStability = Num(90)
              /\ result = Rat(752, 10)

\* C3 witness: calculate_score has run on the scenario record and returned 75.2.
C3_Witness == op = "calculate_score" /\ info = Scenario /\ result = Rat(752, 10)

(***************************************************************************)
(* MetricCalculator: calculator.py, calculate_pe_ratio .. calculate_roe    *)
(***************************************************************************)
\* calculate_pe_ratio with forwardPE consulted before market cap / income.
calculate_pe_ratio_forward_first(i, fdr, market_cap) ==
    LET net_income == Get0(i.netIncomeToCommon)
        pe1 == Or(i.trailingPE, i.forwardPE)
        pe2 == IF ~Truthy(pe1) /\ Truthy(market_cap) /\ RGt(market_cap, Num(0))
                  /\ Truthy(net_income) /\ RGt(net_income, Num(0))
               THEN Round(RDiv(market_cap, net_income), 2)
               ELSE pe1
    IN  IF ~Truthy(pe2) THEN Get0(fdr.per) ELSE pe2

calculate_pe_ratio(i, fdr, market_cap) ==
    LET pe1 == i.trailingPE
        net_income == Get0(i.netIncomeToCommon)
        pe2 == IF ~Truthy(pe1) /\ Truthy(market_cap) /\ RGt(market_cap, Num(0))
                  /\ Truthy(net_income) /\ RGt(net_income, Num(0))
               THEN Round(RDiv(market_cap, net_income), 2)
               ELSE pe1
        pe3 == IF ~Truthy(pe2) THEN i.forwardPE ELSE pe2
    IN  IF ~Truthy(pe3) THEN Get0(fdr.per) ELSE pe3

CalculatePeRatio ==
    Apply("calculate_pe_ratio", calculate_pe_ratio(info, fdr_data, info.market_cap))

(***************************************************************************)
(* SpecPE: the PER cascade over a grid of records                          *)
(***************************************************************************)
\* Market caps tried (units of 1e8): absent, 0, 0.01 (1_000_000), 1, and the
\* multiples of 50 up to MaxCapStep * 50.
MaxCapStep == 2

PeCapInputs == {None, Num(0), Rat(1, 100), Num(1)} \cup {Num(50 * k) : k \in 1..MaxCapStep}
PeIncomeInputs == {None, Num(0), Num(-5), Rat(1, 1000), Num(3), Num(1000)}
TrailingPeInputs == {None, Num(0), Num(15), Num(-3)}
ForwardPeInputs == {None, Num(0), Num(20)}
FdrPerInputs == {None, Num(0), Num(8)}

InitPE ==
    /\ \E t \in TrailingPeInputs, cap \in PeCapInputs, ni \in PeIncomeInputs,
          f \in ForwardPeInputs :
         info = [Blank EXCEPT !.trailingPE = t, !.market_cap = cap,
                              !.netIncomeToCommon = ni, !.forwardPE = f]
    /\ \E per \in FdrPerInputs : fdr_data = [NoFdr EXCEPT !.per = per]
    /\ stock = NoStock
    /\ op = "init"
    /\ result = None
    /\ NoCache

NextPE == CalculatePeRatio

SpecPE == InitPE /\ [][NextPE]_vars

Positive(x) == NotNa(x) /\ RGt(x, Num(0))

\* The last two steps of the PER cascade: forward_pe, then the fallback-cache
\* value, then 0.0.
PeTail == IF Truthy(info.forwardPE) THEN info.forwardPE ELSE Get0(fdr_data.per)

\* C4 as stated: the result is the first non-null, non-zero value among
\* trailing_pe, market_cap / net_income (when both are present and
\* net_income > 0), forward_pe, the fallback-cache value, and else 0.0.
C4_PeCascadeUnrounded ==
    op = "calculate_pe_ratio" =>
        result =
            IF Truthy(info.trailingPE) THEN info.trailingPE
            ELSE IF Truthy(info.market_cap) /\ Positive(info.netIncomeToCommon)
                 THEN RDiv(info.market_cap, info.netIncomeToCommon)
                 ELSE PeTail

\* C4 amended: as C4, except that step 2 yields market_cap / net_income rounded
\* to 2 decimals, is computed only when market_cap > 0 and net_income > 0, and
\* is passed over when it rounds to 0.00.  So trailing_pe wins whatever the
\* other fields hold, step 2 precedes forward_pe, 1_000_000 / 100_000 is 10.0,
\* and no quotient by a non-positive net_income is ever returned.
C4_PeCascadeRounded ==
    op = "calculate_pe_ratio" =>
        LET step2ok == /\ Positive(info.market_cap)
                       /\ Positive(info.netIncomeToCommon)
            step2 == Round(RDiv(info.market_cap, info.netIncomeToCommon), 2)
        IN  /\ Truthy(info.trailingPE) => result = info.trailingPE
            /\ ~Truthy(info.trailingPE) /\ step2ok /\ Truthy(step2) => result = step2
            /\ ~Truthy(info.trailingPE) /\ ~(step2ok /\ Truthy(step2)) => result = PeTail
            /\ info.trailingPE = Num(15) => result = Num(15)
            /\ (~Truthy(info.trailingPE) /\ info.market_cap = Rat(1, 100)
                  /\ info.netIncomeToCommon = Rat(1, 1000)) => result = Num(10)

\* C4 witness: with trailing_pe absent and forward_pe present, step 2 has
\* produced 50 / 3 = 16.67, a rounded quotient, ahead of forward_pe.
C4_Witness ==
    /\ op = "calculate_pe_ratio"
    /\ IsNone(info.trailingPE)
    /\ info.market_cap = Num(50)
    /\ info.netIncomeToCommon = Num(3)
    /\ Truthy(info.forwardPE)
    /\ result = Rat(1667, 100)

(***************************************************************************)
(* PBR: calculator.py 58-211                                               *)
(***************************************************************************)
\* The line-item labels of the statements the model draws from, and which of
\* them contain which keyword (str.contains, case-insensitive).
equity_keywords ==
    << "Stockholders Equity", "Total Stockholder Equity",
       "Total Equity Gross Minority Interest", "Total Stockholders' Equity",
       "Stockholders' Equity" >>

income_keywords ==
    << "Net Income", "Net Income Common Stockholders",
       "Net Income Available To Common Stockholders", "Net Income After Taxes" >>

Contains(label, keyword) ==
    \/ label = keyword
    \/ label = "Total Stockholders' Equity" /\ keyword = "Stockholders' Equity"
    \/ keyword = "Net Income"
         /\ label \in {"Net Income Common Stockholders",
                       "Net Income Available To Common Stockholders",
                       "Net Income After Taxes"}

\* The rows of the sheet whose label contains the keyword, in index order.
MatchingRows(sheet, keyword) ==
    SelectSeq(sheet, LAMBDA row : Contains(row[1], keyword))

\* The loop over the keywords: the latest-column entry of the first matching
\* row of the first keyword that matches any row; None when none matches.
RECURSIVE FirstMatch(_, _, _)
FirstMatch(sheet, keywords, k) ==
    IF k > Len(keywords) THEN None
    ELSE IF Len(MatchingRows(sheet, keywords[k])) > 0
         THEN MatchingRows(sheet, keywords[k])[1][2]
         ELSE FirstMatch(sheet, keywords, k + 1)

_calculate_total_equity_from_balance_sheet(stk) ==
    IF Len(stk.balance_sheet) > 0
    THEN FirstMatch(stk.balance_sheet, equity_keywords, 1)
    ELSE None

\* _calculate_total_equity_from_info without the assets - liabilities fallback.
_calculate_total_equity_from_info_no_fallback(i) ==
    Or(i.totalStockholderEquity, i.totalEquity)

_calculate_total_equity_from_info(i) ==
    LET total_equity == Or(i.totalStockholderEquity, i.totalEquity)
        total_assets == Get0(i.totalAssets)
        total_liabilities == Get0(i.totalLiabilities)
    IN  IF ~Truthy(total_equity) /\ RGt(total_assets, Num(0))
           /\ RGe(total_liabilities, Num(0))
        THEN RSub(total_assets, total_liabilities)
        ELSE total_equity

\* Steps 1 to 3 of the PBR cascade, shared by calculate_pb_ratio and
\* calculate_pb_ratio_without_stock (calculator.py 110-138 and 175-203).
PbSteps123(i, current_price, market_cap) ==
    LET pb1 == i.priceToBook
        book_value == i.bookValue
        pb2 == IF ~Truthy(pb1) /\ NotNa(current_price) /\ RGt(current_price, Num(0))
                  /\ Truthy(book_value) /\ RGt(book_value, Num(0))
               THEN Round(RDiv(current_price, book_value), 2)
               ELSE pb1
        total_equity == _calculate_total_equity_from_info(i)
    IN  IF ~Truthy(pb2) /\ Truthy(market_cap) /\ RGt(market_cap, Num(0))
           /\ Truthy(total_equity) /\ RGt(total_equity, Num(0))
        THEN Round(RDiv(market_cap, total_equity), 2)
        ELSE pb2

calculate_pb_ratio(i, current_price, fdr, market_cap, stk) ==
    LET pb3 == PbSteps123(i, current_price, market_cap)
        total_equity == _calculate_total_equity_from_balance_sheet(stk)
        pb4 == IF ~Truthy(pb3) /\ Truthy(market_cap) /\ RGt(market_cap, Num(0))
                  /\ ~IsNone(total_equity) /\ NotNa(total_equity)
                  /\ RGt(total_equity, Num(0))
               THEN Round(RDiv(market_cap, total_equity), 2)
               ELSE pb3
    IN  IF ~Truthy(pb4) THEN Get0(fdr.pbr) ELSE pb4

calculate_pb_ratio_without_stock(i, current_price, fdr, market_cap) ==
    LET pb3 == PbSteps123(i, current_price, market_cap)
    IN  IF ~Truthy(pb3) THEN Get0(fdr.pbr) ELSE pb3

CalculatePbRatio ==
    Apply("calculate_pb_ratio",
          calculate_pb_ratio(info, Get0(info.current_price), fdr_data,
                             info.market_cap, stock))

CalculatePbRatioWithoutStock ==
    Apply("calculate_pb_ratio_without_stock",
          calculate_pb_ratio_without_stock(info, Get0(info.current_price), fdr_data,
                                           info.market_cap))

CalculateTotalEquityFromInfo ==
    Apply("_calculate_total_equity_from_info", _calculate_total_equity_from_info(info))

CalculateTotalEquityFromBalanceSheet ==
    Apply("_calculate_total_equity_from_balance_sheet",
          _calculate_total_equity_from_balance_sheet(stock))

(***************************************************************************)
(* SpecPB: the PBR cascade over a grid of records and balance sheets       *)
(***************************************************************************)
SheetNaNFirst ==
    << <<"Total Assets", Num(500)>>, <<"Stockholders Equity", NaN>>,
       <<"Total Equity Gross Minority Interest", Num(250)>> >>

PbSheetInputs == {<<>>, << <<"Stockholders Equity", Num(300)>> >>, SheetNaNFirst}
PriceToBookInputs == {None, Num(0), Rat(15, 10)}
PbPriceInputs == {None, Num(50)}
BookValueInputs == {None, Num(-40), Num(30)}
PbCapInputs == {None, Num(0)} \cup {Num(50 * k) : k \in 1..MaxCapStep}
EquityInputs == {None, Num(0), Num(30), Num(-20)}
TotalEquityInputs == {None, Num(80)}
AssetInputs == {None, Num(500)}
LiabilityInputs == {None, Num(200), Num(-10)}
FdrPbrInputs == {None, Rat(9, 10)}

InitPB ==
    /\ \E ptb \in PriceToBookInputs, price \in PbPriceInputs, bv \in BookValueInputs,
          cap \in PbCapInputs, tse \in EquityInputs, te \in TotalEquityInputs,
          ta \in AssetInputs, tl \in LiabilityInputs :
         info = [Blank EXCEPT !.priceToBook = ptb, !.current_price = price,
                              !.bookValue = bv, !.market_cap = cap,
                              !.totalStockholderEquity = tse, !.totalEquity = te,
                              !.totalAssets = ta, !.totalLiabilities = tl]
    /\ \E sheet \in PbSheetInputs : stock = [NoStock EXCEPT !.balance_sheet = sheet]
    /\ \E pbr \in FdrPbrInputs : fdr_data = [NoFdr EXCEPT !.pbr = pbr]
    /\ op = "init"
    /\ result = None
    /\ NoCache

NextPB ==
    \/ CalculatePbRatio
    \/ CalculatePbRatioWithoutStock
    \/ CalculateTotalEquityFromInfo

SpecPB == InitPB /\ [][NextPB]_vars

\* assets - liabilities, usable only when assets > 0 and liabilities >= 0
\* (an absent figure reads as 0).
AssetsMinusLiabilities ==
    IF RGt(Get0(info.totalAssets), Num(0)) /\ RGe(Get0(info.totalLiabilities), Num(0))
    THEN RSub(Get0(info.totalAssets), Get0(info.totalLiabilities))
    ELSE None

SheetEquity == _calculate_total_equity_from_balance_sheet(stock)

PbFallback == Get0(fdr_data.pbr)

\* C5 as stated: the result is the first value produced among price_to_book;
\* current_price / book_value rounded to 2 decimals (both > 0); market_cap /
\* total_equity with total_equity = total_stockholder_equity or, if absent,
\* assets - liabilities; market_cap / balance-sheet equity; the fallback-cache
\* value; 0.0.
C5_PbCascadeUnrounded ==
    op = "calculate_pb_ratio" =>
        LET price == Get0(info.current_price)
            te == IF ~IsNone(info.totalStockholderEquity)
                  THEN info.totalStockholderEquity
                  ELSE AssetsMinusLiabilities
        IN  result =
              IF Truthy(info.priceToBook) THEN info.priceToBook
              ELSE IF Positive(price) /\ Positive(info.bookValue)
                   THEN Round(RDiv(price, info.bookValue), 2)
              ELSE IF Positive(info.market_cap) /\ Positive(te)
                   THEN RDiv(info.market_cap, te)
              ELSE IF Positive(info.market_cap) /\ Positive(SheetEquity)
                   THEN RDiv(info.market_cap, SheetEquity)
              ELSE PbFallback

\* C5 amended: the result is the first non-zero value in this order:
\* price_to_book; current_price / book_value when both are > 0; market_cap /
\* total_equity when both are > 0, where total_equity is
\* total_stockholder_equity, else the record's totalEquity (0 counting as
\* absent for both), else assets - liabilities (assets > 0, liabilities >= 0);
\* market_cap / balance-sheet equity when both are > 0 (calculate_pb_ratio
\* only); the fallback-cache value; 0.0; every quotient rounded to 2 decimals.
\* No quotient by a zero or negative denominator is ever returned.
C5_PbCascadeRounded ==
    op \in {"calculate_pb_ratio", "calculate_pb_ratio_without_stock"} =>
        LET price == Get0(info.current_price)
            te == IF Truthy(info.totalStockholderEquity)
                  THEN info.totalStockholderEquity
                  ELSE IF Truthy(info.totalEquity) THEN info.totalEquity
                  ELSE AssetsMinusLiabilities
            s2 == IF Positive(price) /\ Positive(info.bookValue)
                  THEN Round(RDiv(price, info.bookValue), 2) ELSE None
            s3 == IF Positive(info.market_cap) /\ Positive(te)
                  THEN Round(RDiv(info.market_cap, te), 2) ELSE None
            s4 == IF op = "calculate_pb_ratio" /\ Positive(info.market_cap)
                     /\ Positive(SheetEquity)
                  THEN Round(RDiv(info.market_cap, SheetEquity), 2) ELSE None
        IN  result =
              IF Truthy(info.priceToBook) THEN info.priceToBook
              ELSE IF Truthy(s2) THEN s2
              ELSE IF Truthy(s3) THEN s3
              ELSE IF Truthy(s4) THEN s4
              ELSE PbFallback

\* C5 witness: with price_to_book and book_value absent and no usable
\* stockholder equity in the record, step 3 has divided the market cap 100 by
\* assets - liabilities = 500 - 200 and returned 0.33, a rounded quotient.
C5_Witness ==
    /\ op = "calculate_pb_ratio"
    /\ ~Truthy(info.priceToBook)
    /\ IsNone(info.totalStockholderEquity) /\ IsNone(info.totalEquity)
    /\ info.market_cap = Num(100)
    /\ AssetsMinusLiabilities = Num(300)
    /\ result = Rat(33, 100)

(***************************************************************************)
(* ROE: calculator.py 264-401                                              *)
(***************************************************************************)
\* The equity of ROE step 2 without the assets - liabilities fallback.
roe_total_equity_no_fallback(i) == Or(i.totalStockholderEquity, Get0(i.totalEquity))

\* The equity ROE step 2 divides by (calculator.py 274-283 and 377-386).
roe_total_equity(i) ==
    LET total_equity == Or(i.totalStockholderEquity, Get0(i.totalEquity))
        total_assets == Get0(i.totalAssets)
        total_liabilities == Get0(i.totalLiabilities)
    IN  IF ~Truthy(total_equity) /\ RGt(total_assets, Num(0))
           /\ RGe(total_liabilities, Num(0))
        THEN RSub(total_assets, total_liabilities)
        ELSE total_equity

calculate_roe_without_stock(i) ==
    LET roe1 == IF ~IsNone(i.returnOnEquity)
                THEN Round(RMul(i.returnOnEquity, Num(100)), 2)
                ELSE None
        net_income == Get0(i.netIncomeToCommon)
        total_equity == roe_total_equity(i)
    IN  IF ~Truthy(roe1) /\ Truthy(net_income) /\ RGt(net_income, Num(0))
           /\ Truthy(total_equity) /\ RGt(total_equity, Num(0))
        THEN Round(RMul(RDiv(net_income, total_equity), Num(100)), 2)
        ELSE roe1

calculate_roe(i, stk) ==
    LET roe2 == calculate_roe_without_stock(i)
        total_equity == IF Len(stk.balance_sheet) > 0
                        THEN FirstMatch(stk.balance_sheet, equity_keywords, 1)
                        ELSE None
        net_income == IF Len(stk.income_stmt) > 0
                      THEN FirstMatch(stk.income_stmt, income_keywords, 1)
                      ELSE None
    IN  IF ~Truthy(roe2) /\ ~IsNone(total_equity) /\ NotNa(total_equity)
           /\ RGt(total_equity, Num(0)) /\ ~IsNone(net_income) /\ NotNa(net_income)
        THEN Round(RMul(RDiv(net_income, total_equity), Num(100)), 2)
        ELSE roe2

CalculateRoe == Apply("calculate_roe", calculate_roe(info, stock))

CalculateRoeWithoutStock ==
    Apply("calculate_roe_without_stock", calculate_roe_without_stock(info))

(***************************************************************************)
(* Dividend yield: calculator.py 213-262                                   *)
(***************************************************************************)
\* calculate_dividend_yield scaling the record's yield field whatever its size.
calculate_dividend_yield_always_scaled(i, fdr) ==
    IF ~IsNone(i.dividendRate) /\ ~IsNone(i.currentPrice)
       /\ RGt(i.dividendRate, Num(0)) /\ RGt(i.currentPrice, Num(0))
    THEN RMul(RDiv(i.dividendRate, i.currentPrice), Num(100))
    ELSE IF ~IsNone(i.dividendYield) THEN RMul(i.dividendYield, Num(100))
    ELSE IF ~IsNone(fdr.dividend_yield) THEN fdr.dividend_yield
    ELSE Num(0)

calculate_dividend_yield(i, fdr) ==
    IF ~IsNone(i.dividendRate) /\ ~IsNone(i.currentPrice)
       /\ RGt(i.dividendRate, Num(0)) /\ RGt(i.currentPrice, Num(0))
    THEN RMul(RDiv(i.dividendRate, i.currentPrice), Num(100))
    ELSE IF ~IsNone(i.dividendYield)
         THEN IF RLt(i.dividendYield, Num(1))
              THEN RMul(i.dividendYield, Num(100))
              ELSE i.dividendYield
    ELSE IF ~IsNone(fdr.dividend_yield) THEN fdr.dividend_yield
    ELSE Num(0)

(***************************************************************************)
(* EPS: service.py 321-398 and yahoo_provider.py 112-185                   *)
(***************************************************************************)
_calculate_eps(i, current_price) ==
    LET eps == Or(i.trailingEps, i.forwardEps)
    IN  IF ~IsNone(eps) /\ RGt(eps, Num(0)) THEN eps
        ELSE IF ~IsNone(i.netIncomeToCommon) /\ ~IsNone(i.sharesOutstanding)
                /\ RGt(i.sharesOutstanding, Num(0))
                /\ RGt(i.netIncomeToCommon, Num(0))
             THEN RDiv(i.netIncomeToCommon, i.sharesOutstanding)
        ELSE IF ~IsNone(i.epsCurrentYear) /\ RGt(i.epsCurrentYear, Num(0))
             THEN i.epsCurrentYear
        ELSE IF Truthy(current_price) /\ RGt(current_price, Num(0))
                /\ ~IsNone(i.trailingPE) /\ RGt(i.trailingPE, Num(0))
             THEN RDiv(current_price, i.trailingPE)
        ELSE None

\* A standardized key is copied to its yfinance-style key when the latter is
\* missing (on a copy of the record).
_convert_to_calculator_format(i) ==
    [i EXCEPT
       !.currentPrice = IF IsNone(@) THEN i.current_price ELSE @,
       !.marketCap = IF IsNone(@) THEN i.market_cap ELSE @,
       !.previousClose = IF IsNone(@) THEN i.previous_close ELSE @,
       !.fiftyTwoWeekLow = IF IsNone(@) THEN i.fifty_two_week_low ELSE @,
       !.fiftyTwoWeekHigh = IF IsNone(@) THEN i.fifty_two_week_high ELSE @,
       !.targetMeanPrice = IF IsNone(@) THEN i.target_mean_price ELSE @]

_calculate_eps_from_info(i, current_price) ==
    _calculate_eps(_convert_to_calculator_format(i), current_price)

\* The EPS step of StockService.get_stock_info (lines 80 and 115).
CalculateEpsFromInfo ==
    Apply("_calculate_eps_from_info",
          _calculate_eps_from_info(info, Or(info.current_price, Num(0))))

\* YahooStockProvider._calculate_current_price: the first non-zero price
\* field, else the last close of the 5-day history when there is one.
_calculate_current_price(i, stk) ==
    LET current_price ==
            Or(Or(Or(Or(i.currentPrice, i.regularMarketPrice), i.previousClose),
                  i.open), Num(0))
    IN  IF current_price = Num(0) /\ Len(stk.history) > 0
        THEN stk.history[Len(stk.history)]
        ELSE current_price

\* The EPS step of YahooStockProvider.get_stock_info (lines 229 and 236).
YahooCalculateEps ==
    Apply("_calculate_eps",
          _calculate_eps(info, _calculate_current_price(info, stock)))

(***************************************************************************)
(* StockFormatter: formatter.py.  A formatted string is the triple         *)
(* <<"str", unit, number>>: the unit is the currency sign or suffix the    *)
(* string carries and the number is the value its digits spell.  The       *)
(* thousands separators are layout only.  The Korean suffixes are spelled  *)
(* in Latin letters: "won" for the currency suffix, "bae" for the suffix   *)
(* of a ratio ("times").  A sentinel string is its text with no number.    *)
(***************************************************************************)
Text(unit, value) == <<"str", unit, value>>

Sentinel(text) == Text(text, None)

\* Python's int(x) on a float: truncation toward zero.
int(x) == IF x[1] >= 0 THEN x[1] \div x[2] ELSE -((-x[1]) \div x[2])

format_currency(value, is_korean) ==
    IF IsNone(value) \/ value = Num(0) THEN Sentinel("-")
    ELSE IF is_korean THEN Text("won", Num(int(value)))
    ELSE Text("$", Round(value, 2))

format_dividend(dividend_yield, is_korean) ==
    IF IsNone(dividend_yield) \/ dividend_yield = Num(0) THEN Sentinel("N/A")
    ELSE Text("%", Round(dividend_yield, 2))

format_market_cap(market_cap) ==
    IF IsNone(market_cap) \/ market_cap = Num(0) THEN Sentinel("N/A")
    ELSE Text("", Num(int(market_cap)))

format_roe(roe) ==
    IF IsNone(roe) THEN Sentinel("N/A") ELSE Text("%", Round(roe, 1))

format_eps(eps, is_korean) ==
    IF IsNone(eps) THEN Sentinel("N/A")
    ELSE IF is_korean THEN Text("won", Num(int(eps)))
    ELSE Text("$", Round(eps, 2))

format_pe_ratio(pe_ratio, is_korean) ==
    IF IsNone(pe_ratio) THEN Sentinel("N/A") ELSE Text("bae", Round(pe_ratio, 1))

format_pb_ratio(pb_ratio, is_korean) ==
    IF IsNone(pb_ratio) THEN Sentinel("N/A") ELSE Text("bae", Round(pb_ratio, 1))

format_beta(beta) ==
    IF IsNone(beta) THEN Sentinel("N/A") ELSE Text("", Round(beta, 2))

(***************************************************************************)
(* StockService.get_stock_info, from the provider's record to the payload  *)
(* (service.py 79-247: the metrics and the score)                          *)
(***************************************************************************)
get_stock_info(i, is_korean) ==
    LET current_price == Or(i.current_price, Num(0))
        market_cap == i.market_cap
        calc_info == _convert_to_calculator_format(i)
        pe_ratio == IF ~Truthy(i.pe_ratio)
                    THEN calculate_pe_ratio(calc_info, NoFdr, market_cap)
                    ELSE i.pe_ratio
        pb_ratio == IF ~Truthy(i.pb_ratio)
                    THEN calculate_pb_ratio_without_stock(calc_info, current_price,
                                                          NoFdr, market_cap)
                    ELSE i.pb_ratio
        dividend_yield == IF ~Truthy(i.dividend_yield)
                          THEN calculate_dividend_yield(calc_info, NoFdr)
                          ELSE i.dividend_yield
        roe == IF ~Truthy(i.roe) THEN calculate_roe_without_stock(calc_info) ELSE i.roe
        eps == IF IsNone(i.eps) THEN _calculate_eps_from_info(i, current_price)
               ELSE i.eps
        data == [current_price |-> current_price,
                 fifty_two_week_low |-> i.fifty_two_week_low,
                 fifty_two_week_high |-> i.fifty_two_week_high]
        calc_beta == Or(calc_info.beta, i.beta)
    IN  [current_price |-> current_price, pe_ratio |-> pe_ratio,
         pb_ratio |-> pb_ratio, dividend_yield |-> dividend_yield,
         beta |-> i.beta, roe |-> roe, eps |-> eps,
         pe_ratio_str |-> format_pe_ratio(pe_ratio, is_korean),
         pb_ratio_str |-> format_pb_ratio(pb_ratio, is_korean),
         fifty_two_week_low |-> i.fifty_two_week_low,
         fifty_two_week_high |-> i.fifty_two_week_high,
         score |-> calculate_score(data, roe, pe_ratio, pb_ratio, market_cap,
                                   calc_beta, calc_info)]

GetStockInfo ==
    \E is_korean \in BOOLEAN :
        Apply("get_stock_info", get_stock_info(info, is_korean))

(***************************************************************************)
(* SpecSheet: the balance-sheet equity lookup over small balance sheets    *)
(***************************************************************************)
MaxRows == 2

SheetLabels ==
    {"Total Assets", "Stockholders Equity", "Total Stockholder Equity",
     "Total Equity Gross Minority Interest"}

SheetValues == {NaN, Num(-50), Num(250)}

\* The sheets of n rows with pairwise distinct labels.
RECURSIVE SheetsOfLen(_)
SheetsOfLen(n) ==
    IF n = 0 THEN {<<>>}
    ELSE {Append(sh, <<l, v>>) :
            sh \in SheetsOfLen(n - 1), l \in SheetLabels, v \in SheetValues}

DistinctLabels(sh) ==
    \A a, b \in 1..Len(sh) : a # b => sh[a][1] # sh[b][1]

BalanceSheets ==
    {sh \in UNION {SheetsOfLen(n) : n \in 0..MaxRows} : DistinctLabels(sh)}

IncomeStatements ==
    {<<>>, << <<"Net Income", Num(30)>> >>, << <<"Net Income", NaN>> >>}

SheetCapInputs == {None, Num(50), Num(100)}

InitSheet ==
    /\ \E mc \in SheetCapInputs : info = [Blank EXCEPT !.market_cap = mc]
    /\ \E bs \in BalanceSheets, is \in IncomeStatements :
          stock = [balance_sheet |-> bs, income_stmt |-> is]
    /\ fdr_data = NoFdr
    /\ op = "init"
    /\ result = None
    /\ NoCache

NextSheet ==
    \/ CalculateTotalEquityFromBalanceSheet
    \/ CalculatePbRatio
    \/ CalculateRoe

SpecSheet == InitSheet /\ [][NextSheet]_vars

\* The lookup as stated: the entry of the first variant, in list order, whose
\* first matching row holds a non-null positive value; None when no variant
\* has one.
RECURSIVE FirstPositiveMatch(_, _, _)
FirstPositiveMatch(sheet, keywords, k) ==
    IF k > Len(keywords) THEN None
    ELSE IF Len(MatchingRows(sheet, keywords[k])) > 0
            /\ Positive(MatchingRows(sheet, keywords[k])[1][2])
         THEN MatchingRows(sheet, keywords[k])[1][2]
         ELSE FirstPositiveMatch(sheet, keywords, k + 1)

\* C6: the balance-sheet equity lookup yields the value of the first name
\* variant whose latest-column entry is non-null and positive; a variant
\* whose row holds a null or non-positive value is passed over, so PBR step 4
\* and ROE step 3 divide by that value whenever some variant has one.
C6_LookupSkipsInvalidEntries ==
    LET equity == FirstPositiveMatch(stock.balance_sheet, equity_keywords, 1)
    IN  /\ op = "_calculate_total_equity_from_balance_sheet" /\ ~IsNone(equity)
            => result = equity
        /\ op = "calculate_pb_ratio" /\ ~IsNone(equity) /\ Positive(info.market_cap)
            /\ Truthy(Round(RDiv(info.market_cap, equity), 2))
            => result = Round(RDiv(info.market_cap, equity), 2)

(***************************************************************************)
(* SpecROE: the ROE cascade and the roe field of the payload               *)
(***************************************************************************)
MaxIncomeStep == 2

ReturnOnEquityInputs == {None, Num(0), Rat(18, 100), Rat(-5, 100)}

RoeIncomeInputs == {None, Num(0), Num(-10)} \cup {Num(10 * k) : k \in 1..MaxIncomeStep}

RoeEquityInputs == {None, Num(0), Num(300), Num(-50)}

RoeTotalEquityInputs == {None, Num(80)}

RoeAssetInputs == {None, Num(500)}

RoeLiabilityInputs == {None, Num(200), Num(-10)}

RoeStockInputs ==
    {NoStock,
     [balance_sheet |-> << <<"Stockholders Equity", Num(200)>> >>,
      income_stmt |-> << <<"Net Income", Num(0)>> >>],
     [balance_sheet |-> << <<"Stockholders Equity", Num(200)>> >>,
      income_stmt |-> << <<"Net Income", Num(30)>> >>],
     [balance_sheet |-> SheetNaNFirst,
      income_stmt |-> << <<"Net Income", Num(30)>> >>]}

ProviderRoeInputs == {None, Num(0), Num(15)}

InitROE ==
    /\ \E roe \in ReturnOnEquityInputs, ni \in RoeIncomeInputs,
          tse \in RoeEquityInputs, te \in RoeTotalEquityInputs,
          ta \in RoeAssetInputs, tl \in RoeLiabilityInputs,
          proe \in ProviderRoeInputs :
          info = [Blank EXCEPT !.returnOnEquity = roe,
                               !.netIncomeToCommon = ni,
                               !.totalStockholderEquity = tse,
                               !.totalEquity = te,
                               !.totalAssets = ta,
                               !.totalLiabilities = tl,
                               !.roe = proe]
    /\ stock \in RoeStockInputs
    /\ fdr_data = NoFdr
    /\ op = "init"
    /\ result = None
    /\ NoCache

NextROE ==
    \/ CalculateRoe
    \/ CalculateRoeWithoutStock
    \/ GetStockInfo

SpecROE == InitROE /\ [][NextROE]_vars

\* C7: in calculate_roe and calculate_roe_without_stock, a return_on_equity
\* that is present in the record, 0 included, decides the result, which is
\* return_on_equity x 100 whatever the income, equity, asset and liability
\* fields hold.
C7_ReturnOnEquityWins ==
    op \in {"calculate_roe", "calculate_roe_without_stock"}
       /\ ~IsNone(info.returnOnEquity)
    => result = RMul(info.returnOnEquity, Num(100))

\* The equity of ROE step 2 as the record gives it: total_stockholder_equity,
\* else totalEquity (0 counting as absent for both), else assets - liabilities.
RecordEquity ==
    IF Truthy(info.totalStockholderEquity) THEN info.totalStockholderEquity
    ELSE IF Truthy(info.totalEquity) THEN info.totalEquity
    ELSE AssetsMinusLiabilities

\* What the statement scan of step 3 gives on its own.
StatementRoe == calculate_roe(Blank, stock)

\* C8 as stated: with return_on_equity absent, net_income present (of either
\* sign) and total_equity > 0, calculate_roe returns (net_income /
\* total_equity) x 100, and for every record the equity ROE step 2 divides by
\* is the one _calculate_total_equity_from_info returns (an absent equity
\* and a zero one are not told apart).
C8_RoeStep2EitherSign ==
    /\ Truthy(roe_total_equity(info)) \/ Truthy(_calculate_total_equity_from_info(info))
       => roe_total_equity(info) = _calculate_total_equity_from_info(info)
    /\ op = "calculate_roe" /\ IsNone(info.returnOnEquity)
         /\ Truthy(info.netIncomeToCommon) /\ Positive(RecordEquity)
       => result = RMul(RDiv(info.netIncomeToCommon, RecordEquity), Num(100))

\* C8 amended: with return_on_equity absent, calculate_roe returns
\* (net_income / total_equity) x 100 rounded to 2 decimals when net_income > 0
\* and total_equity > 0 and that value is not 0.00; with a net_income that is
\* absent, zero or negative step 2 yields nothing and the result is what the
\* statement scan gives.  The equity step 2 divides by equals the one
\* _calculate_total_equity_from_info returns whenever either is non-zero.
C8_RoeStep2PositiveIncome ==
    /\ Truthy(roe_total_equity(info)) \/ Truthy(_calculate_total_equity_from_info(info))
       => /\ roe_total_equity(info) = _calculate_total_equity_from_info(info)
          /\ roe_total_equity(info) = RecordEquity
    /\ op = "calculate_roe" /\ IsNone(info.returnOnEquity)
       => LET step2 == Round(RMul(RDiv(info.netIncomeToCommon, RecordEquity),
                                  Num(100)), 2)
          IN  IF Positive(info.netIncomeToCommon) /\ Positive(RecordEquity)
                 /\ Truthy(step2)
              THEN result = step2
              ELSE result = StatementRoe

\* C8 witness: with return_on_equity and both equity fields absent, step 2
\* has divided the net income 10 by assets - liabilities = 300 and returned
\* 3.33.
C8_Witness ==
    /\ op = "calculate_roe"
    /\ IsNone(info.returnOnEquity)
    /\ info.netIncomeToCommon = Num(10)
    /\ IsNone(info.totalStockholderEquity) /\ IsNone(info.totalEquity)
    /\ AssetsMinusLiabilities = Num(300)
    /\ result = Rat(333, 100)

\* Every ROE strategy of calculate_roe failed to produce a value.
AllRoeStrategiesFailed ==
    /\ IsNone(info.returnOnEquity)
    /\ ~(Positive(info.netIncomeToCommon) /\ Positive(RecordEquity))
    /\ IsNone(StatementRoe)

\* C9: ROE is None exactly when every strategy failed; a ROE computed as 0 is
\* reported as 0, in the result of calculate_roe and in the roe field of the
\* get_stock_info payload (a provider ROE of 0 stays 0, a known ROE is never
\* reported as unknown).
C9_ZeroRoeIsNotUnknown ==
    /\ op = "calculate_roe" => (IsNone(result) <=> AllRoeStrategiesFailed)
    /\ op = "get_stock_info" /\ ~IsNone(info.roe)
       => /\ ~IsNone(result.roe)
          /\ info.roe = Num(0) => result.roe = Num(0)

(***************************************************************************)
(* SpecEPS: the EPS cascade of the service and of the Yahoo provider        *)
(***************************************************************************)
MaxEpsPriceStep == 2

TrailingEpsInputs == {None, Num(0), Num(-2), Num(5)}

ForwardEpsInputs == {None, Num(-1), Num(3)}

EpsIncomeInputs == {None, Num(-10), Num(40)}

SharesInputs == {None, Num(0), Num(8)}

EpsCurrentYearInputs == {None, Num(-1), Num(4)}

EpsTrailingPeInputs == {None, Num(0), Num(25)}

EpsPriceInputs == {None} \cup {Num(100 * k) : k \in 1..MaxEpsPriceStep}

HistoryInputs == {<<>>, <<Num(90), Num(150)>>}

InitEPS ==
    /\ \E te \in TrailingEpsInputs, fe \in ForwardEpsInputs,
          ni \in EpsIncomeInputs, sh \in SharesInputs,
          ey \in EpsCurrentYearInputs, pe \in EpsTrailingPeInputs,
          p \in EpsPriceInputs, q \in EpsPriceInputs :
          info = [Blank EXCEPT !.trailingEps = te,
                               !.forwardEps = fe,
                               !.netIncomeToCommon = ni,
                               !.sharesOutstanding = sh,
                               !.epsCurrentYear = ey,
                               !.trailingPE = pe,
                               !.current_price = p,
                               !.currentPrice = q]
    /\ \E h \in HistoryInputs :
          stock = [balance_sheet |-> <<>>, income_stmt |-> <<>>, history |-> h]
    /\ fdr_data = NoFdr
    /\ op = "init"
    /\ result = None
    /\ NoCache

NextEPS ==
    \/ CalculateEpsFromInfo
    \/ YahooCalculateEps

SpecEPS == InitEPS /\ [][NextEPS]_vars

\* The current price the cascade was called with.
EpsPrice ==
    IF op = "_calculate_eps" THEN _calculate_current_price(info, stock)
    ELSE Or(info.current_price, Num(0))

\* C10: the EPS cascade returns the first value produced in the order: the
\* first positive value among trailing_eps and forward_eps (a non-positive
\* trailing_eps does not block a positive forward_eps); net_income /
\* shares_outstanding when both are > 0; the current-year EPS when > 0;
\* current_price / trailing_pe when both are > 0; absent otherwise.  A
\* computed EPS is always > 0.
C10_EpsFirstPositive ==
    op \in {"_calculate_eps_from_info", "_calculate_eps"} =>
        /\ result =
             IF Positive(info.trailingEps) THEN info.trailingEps
             ELSE IF Positive(info.forwardEps) THEN info.forwardEps
             ELSE IF Positive(info.netIncomeToCommon)
                     /\ Positive(info.sharesOutstanding)
                  THEN RDiv(info.netIncomeToCommon, info.sharesOutstanding)
             ELSE IF Positive(info.epsCurrentYear) THEN info.epsCurrentYear
             ELSE IF Positive(EpsPrice) /\ Positive(info.trailingPE)
                  THEN RDiv(EpsPrice, info.trailingPE)
             ELSE None
        /\ ~IsNone(result) => RGt(result, Num(0))

(***************************************************************************)
(* SpecDividend: calculate_dividend_yield over a grid of records           *)
(***************************************************************************)
CalculateDividendYield ==
    Apply("calculate_dividend_yield", calculate_dividend_yield(info, fdr_data))

MaxDividendPriceStep == 2

DividendRateInputs == {None, Num(0), Num(-1), Num(2)}

DividendPriceInputs ==
    {None, Num(0)} \cup {Num(50 * k) : k \in 1..MaxDividendPriceStep}

DividendYieldInputs ==
    {None, Num(0), Rat(-1, 2), Rat(3, 100), Rat(99, 100), Num(1), Num(3)}

FdrDividendInputs == {None, Num(0), Rat(5, 2)}

InitDividend ==
    /\ \E dr \in DividendRateInputs, cp \in DividendPriceInputs,
          dy \in DividendYieldInputs :
          info = [Blank EXCEPT !.dividendRate = dr,
                               !.currentPrice = cp,
                               !.dividendYield = dy]
    /\ \E fy \in FdrDividendInputs : fdr_data = [NoFdr EXCEPT !.dividend_yield = fy]
    /\ stock = NoStock
    /\ op = "init"
    /\ result = None
    /\ NoCache

NextDividend == CalculateDividendYield

SpecDividend == InitDividend /\ [][NextDividend]_vars

\* C11: calculate_dividend_yield returns (dividend_rate / current_price) x 100
\* when both are > 0; otherwise the record's yield field, times 100 exactly
\* when the raw value is < 1.0 (0.03 gives 3.0, 3.0 gives 3.0); otherwise the
\* fallback-cache yield; otherwise 0.0.
C11_DividendYieldCascade ==
    op = "calculate_dividend_yield" =>
        /\ result =
             IF Positive(info.dividendRate) /\ Positive(info.currentPrice)
             THEN RMul(RDiv(info.dividendRate, info.currentPrice), Num(100))
             ELSE IF ~IsNone(info.dividendYield)
                  THEN IF RLt(info.dividendYield, Num(1))
                       THEN RMul(info.dividendYield, Num(100))
                       ELSE info.dividendYield
             ELSE IF ~IsNone(fdr_data.dividend_yield) THEN fdr_data.dividend_yield
             ELSE Num(0)
        /\ ~(Positive(info.dividendRate) /\ Positive(info.currentPrice))
           => /\ info.dividendYield = Rat(3, 100) => result = Num(3)
              /\ info.dividendYield = Num(3) => result = Num(3)

\* C11 witness: without a usable dividend rate, the raw yield 3.0 of the
\* record has been returned as 3.0, although a fallback-cache yield exists.
C11_Witness ==
    /\ op = "calculate_dividend_yield"
    /\ ~Positive(info.dividendRate)
    /\ info.dividendYield = Num(3)
    /\ ~IsNone(fdr_data.dividend_yield)
    /\ result = Num(3)

(***************************************************************************)
(* Volatility: calculator.py 403-437                                       *)
(***************************************************************************)
NoKind == "None"

\* closes.pct_change().dropna(): the day-over-day relative changes.
pct_change(closes) ==
    [k \in 1..(Len(closes) - 1) |-> RSub(RDiv(closes[k + 1], closes[k]), Num(1))]

RECURSIVE SumSeq(_, _)
SumSeq(xs, k) == IF k > Len(xs) THEN Num(0) ELSE RAdd(xs[k], SumSeq(xs, k + 1))

\* The integer nearest to the square root of x (x >= 0), by bisection.
RECURSIVE NearestRoot(_, _, _)
NearestRoot(x, lo, hi) ==
    IF lo = hi THEN lo
    ELSE LET mid == (lo + hi) \div 2
         IN  IF RLe(x, Num(mid * mid + mid))
             THEN NearestRoot(x, lo, mid)
             ELSE NearestRoot(x, mid + 1, hi)

\* round(daily_returns.std() * sqrt(252) * 100, 2), with the sample standard
\* deviation (NaN for a single return).
historical_volatility(closes) ==
    LET daily_returns == pct_change(closes)
        n == Len(daily_returns)
        mean == RDiv(SumSeq(daily_returns, 1), Num(n))
        squares == [k \in 1..n |-> RMul(RSub(daily_returns[k], mean),
                                        RSub(daily_returns[k], mean))]
        variance == RDiv(SumSeq(squares, 1), Num(n - 1))
        scaled == RMul(RMul(RMul(variance, Num(252)), Num(10000)), Num(10000))
    IN  IF n = 1 THEN NaN
        ELSE Rat(NearestRoot(scaled, 0, 46000), 100)

calculate_volatility(i, stk) ==
    LET first == IF ~IsNone(i.beta) THEN <<i.beta, "beta">> ELSE <<None, NoKind>>
    IN  IF ~Truthy(first[1]) /\ Len(stk.history) > 1
        THEN <<historical_volatility(stk.history), "historical">>
        ELSE first

CalculateVolatility ==
    Apply("calculate_volatility", calculate_volatility(info, stock))

(***************************************************************************)
(* SpecVolatility: calculate_volatility over betas and price histories     *)
(***************************************************************************)
MaxSwingStep == 2

VolBetaInputs ==
    {None, Num(0), Rat(-1, 2), Rat(1, 2), Rat(4, 5), Num(1), Rat(11, 10),
     Rat(3, 2), Num(2)}

\* A year of closes: 1000, then up u percent, then down d percent.
Swing(u, d) ==
    << Num(1000), Num(1000 + 10 * u),
       RMul(Num(1000 + 10 * u), Rat(100 - d, 100)) >>

CloseInputs ==
    {<<>>, <<Num(1000)>>, <<Num(1000), Num(1010)>>,
     <<Num(1000), Num(1000), Num(1000)>>}
    \cup {Swing(u, d) : u, d \in 1..MaxSwingStep}

InitVolatility ==
    /\ \E b \in VolBetaInputs : info = [Blank EXCEPT !.beta = b]
    /\ \E h \in CloseInputs :
          stock = [balance_sheet |-> <<>>, income_stmt |-> <<>>, history |-> h]
    /\ fdr_data = NoFdr
    /\ op = "init"
    /\ result = None
    /\ NoCache

NextVolatility == CalculateVolatility

SpecVolatility == InitVolatility /\ [][NextVolatility]_vars

\* C12: calculate_volatility returns (beta, 'beta') whenever beta is present;
\* otherwise the annualized historical volatility tagged 'historical' when at
\* least 2 daily closes are available; otherwise (absent, absent).  The kind is
\* absent if and only if the value is absent.
C12_BetaPreferred ==
    op = "calculate_volatility" =>
        /\ ~IsNone(info.beta) => result = <<info.beta, "beta">>
        /\ IsNone(info.beta) /\ Len(stock.history) >= 2
           => result = <<historical_volatility(stock.history), "historical">>
        /\ IsNone(info.beta) /\ Len(stock.history) < 2 => result = <<None, NoKind>>
        /\ result[2] = NoKind <=> IsNone(result[1])

(***************************************************************************)
(* Fields of the wrong type and missing objects: what escapes the          *)
(* try/except blocks of calculate_pe_ratio, calculate_roe and the EPS      *)
(* cascade                                                                  *)
(***************************************************************************)
\* A non-numeric, non-empty string found where a number is expected: it is
\* not None and it is truthy; comparing it with a number, or round() and
\* float() of it, raises.
BadType == <<1, -1>>

\* The outcome of a call that raised instead of returning.
Raised == <<-1, 0>>

\* A stock argument that is None: every attribute access raises.
MissingStock == [balance_sheet |-> <<>>, income_stmt |-> <<>>, history |-> <<>>,
                 missing |-> TRUE]

\* A step whose guard or formula raises inside its try block is abandoned and
\* leaves the running value as it was, as does a step whose guard is false:
\* the string is replaced by a number with which the same step fails the same
\* way (v = None where the field is read alone, v = -1 where it is read behind
\* `or` and must stay truthy).
Unbad(x, v) == IF x = BadType THEN v ELSE x

\* calculate_pe_ratio: market_cap and netIncomeToCommon are only read inside
\* the try of step 2 (lines 36-47); trailingPE, forwardPE and the cache value
\* are returned untested.
calculate_pe_ratio_any_type(i, fdr, market_cap) ==
    calculate_pe_ratio(
        [i EXCEPT !.netIncomeToCommon = Unbad(@, None)], fdr, Unbad(market_cap, None))

\* calculate_roe: round(return_on_equity * 100, 2) (line 268) is outside any
\* try; steps 2 and 3 are inside (lines 272-294 and 297-359), and an access to
\* an attribute of a missing stock raises inside the try of step 3.
calculate_roe_any_type(i, stk) ==
    IF i.returnOnEquity = BadType THEN Raised
    ELSE calculate_roe(
             [i EXCEPT !.netIncomeToCommon = Unbad(@, None),
                       !.totalStockholderEquity = Unbad(@, Num(-1)),
                       !.totalEquity = Unbad(@, Num(-1)),
                       !.totalAssets = Unbad(@, None),
                       !.totalLiabilities = Unbad(@, Num(-1))],
             IF "missing" \in DOMAIN stk THEN NoStock ELSE stk)

\* The EPS cascade: float() of each field is inside a try that catches
\* ValueError and TypeError; `current_price > 0` of step 4 (service.py 383,
\* yahoo_provider.py 170) is outside, and is reached when steps 1 to 3 fail.
_calculate_eps_any_type(i, current_price) ==
    LET clean == [i EXCEPT !.trailingEps = Unbad(@, Num(-1)),
                           !.forwardEps = Unbad(@, None),
                           !.netIncomeToCommon = Unbad(@, None),
                           !.sharesOutstanding = Unbad(@, None),
                           !.epsCurrentYear = Unbad(@, None),
                           !.trailingPE = Unbad(@, None)]
    IN  IF current_price = BadType
        THEN IF IsNone(_calculate_eps(clean, Num(0))) THEN Raised
             ELSE _calculate_eps(clean, Num(0))
        ELSE _calculate_eps(clean, current_price)

CalculatePeRatioAnyType ==
    Apply("calculate_pe_ratio",
          calculate_pe_ratio_any_type(info, fdr_data, info.market_cap))

CalculateRoeAnyType == Apply("calculate_roe", calculate_roe_any_type(info, stock))

CalculateEpsAnyType ==
    Apply("_calculate_eps_from_info",
          _calculate_eps_any_type(_convert_to_calculator_format(info),
                                  Or(info.current_price, Num(0))))

AnyType(numbers) == {None, BadType} \cup numbers

InitTypes ==
    /\ \E roe \in AnyType({Num(0), Rat(18, 100)}), ni \in AnyType({Num(10)}),
          tse \in AnyType({Num(300)}), ta \in AnyType({Num(500)}),
          tl \in AnyType({Num(200)}), pe \in AnyType({Num(12)}),
          mc \in AnyType({Num(50)}), te \in AnyType({Num(5)}),
          cp \in AnyType({Num(100)}) :
          info = [Blank EXCEPT !.returnOnEquity = roe,
                               !.netIncomeToCommon = ni,
                               !.totalStockholderEquity = tse,
                               !.totalAssets = ta,
                               !.totalLiabilities = tl,
                               !.trailingPE = pe,
                               !.market_cap = mc,
                               !.trailingEps = te,
                               !.current_price = cp]
    /\ stock \in {NoStock, MissingStock,
                  [balance_sheet |-> << <<"Stockholders Equity", Num(200)>> >>,
                   income_stmt |-> << <<"Net Income", Num(30)>> >>]}
    /\ fdr_data = NoFdr
    /\ op = "init"
    /\ result = None
    /\ NoCache

NextTypes ==
    \/ CalculatePeRatioAnyType
    \/ CalculateRoeAnyType
    \/ CalculateEpsAnyType

SpecTypes == InitTypes /\ [][NextTypes]_vars

\* C13: for every input record, fields of the wrong type and missing nested
\* structures included, a calculator operation returns a value or the
\* absent/default value and never raises.
C13_NeverRaises == result # Raised

(***************************************************************************)
(* SpecProfitability: _score_profitability and calculate_profit_margin     *)
(***************************************************************************)
CalculateProfitMargin ==
    Apply("calculate_profit_margin", calculate_profit_margin(info))

\* ROE values tried: the multiples of 5 from 0 to 5 * MaxRoeStep, and a few
\* values off the grid.
MaxRoeStep == 5

ScoreRoeInputs ==
    {None, Num(-5), Rat(123, 100), Rat(1111, 100), Num(21)}
    \cup {Num(5 * k) : k \in 0..MaxRoeStep}

ProfitMarginInputs == {None, Num(0), Rat(-1, 10), Rat(1236, 10000), Rat(15, 100), Rat(1, 4)}

IncomeRevenueInputs ==
    {<<None, None>>, <<None, Num(100)>>, <<Num(10), Num(100)>>, <<Num(10), Num(0)>>,
     <<Num(-10), Num(100)>>, <<Num(37), Num(300)>>}

InitProfitability ==
    /\ \E roe \in ScoreRoeInputs, pm \in ProfitMarginInputs, ir \in IncomeRevenueInputs :
          info = [Blank EXCEPT !.roe = roe, !.profitMargins = pm,
                               !.netIncomeToCommon = ir[1], !.totalRevenue = ir[2]]
    /\ stock = NoStock
    /\ fdr_data = NoFdr
    /\ op = "init"
    /\ result = None
    /\ NoCache

NextProfitability ==
    \/ ScoreProfitability
    \/ CalculateProfitMargin

SpecProfitability == InitProfitability /\ [][NextProfitability]_vars

\* roe_score as stated: 100 above 20, 50 + ((x-10)/10)*50 on [10, 20],
\* (x/10)*50 on [0, 10), 0 below 0, 50 when absent.
RoeScore(x) ==
    IF IsNone(x) THEN Num(50)
    ELSE IF RGt(x, Num(20)) THEN Num(100)
    ELSE IF RGe(x, Num(10))
         THEN RAdd(Num(50), RMul(RSub(x, Num(10)), Num(5)))
    ELSE IF RGe(x, Num(0)) THEN RMul(x, Num(5))
    ELSE Num(0)

\* profit_margin as stated: the record's margin field, else net_income /
\* total_revenue when revenue > 0, else absent.
StatedMargin ==
    IF ~IsNone(info.profitMargins) THEN info.profitMargins
    ELSE IF ~IsNone(info.netIncomeToCommon) /\ Positive(info.totalRevenue)
         THEN RDiv(info.netIncomeToCommon, info.totalRevenue)
    ELSE None

StatedMarginPct == IF IsNone(StatedMargin) THEN None ELSE RMul(StatedMargin, Num(100))

StatedProfitability ==
    RAdd(RMul(RoeScore(info.roe), Rat(1, 2)), RMul(RoeScore(StatedMarginPct), Rat(1, 2)))

\* C14 as stated: profitability = 0.5*roe_score + 0.5*margin_score, the bare
\* sum.
C14_ProfitabilityUnrounded ==
    op = "_score_profitability" => result = StatedProfitability

\* C14 amended: profitability is 0.5*roe_score + 0.5*margin_score rounded to
\* one decimal, with roe_score the stated piecewise function (continuous at 10
\* and at 20) and margin_score the same function of profit_margin x 100,
\* profit_margin being the margin field, else net_income / total_revenue when
\* revenue > 0, else absent.
C14_ProfitabilityRounded ==
    /\ op = "_score_profitability" => result = Round(StatedProfitability, 1)
    /\ op = "calculate_profit_margin" => result = StatedMargin
    /\ RoeScore(Num(10)) = RMul(Num(10), Num(5))
    /\ RoeScore(Num(20)) = Num(100)

\* C14 witness: roe 11.11 (roe_score 55.55) and no margin (score 50) have
\* been scored 52.8, the one-decimal rounding of 52.775.
C14_Witness ==
    /\ op = "_score_profitability"
    /\ info.roe = Rat(1111, 100)
    /\ IsNone(StatedMargin)
    /\ StatedProfitability = Rat(52775, 1000)
    /\ result = Rat(528, 10)

(***************************************************************************)
(* SpecValuation: _score_valuation over a grid of PER and PBR values       *)
(***************************************************************************)
\* PER values tried: the multiples of 10 from 0 to 10 * MaxPeStep, and a few
\* values off the grid; PBR values likewise on the integers 0..MaxPbStep.
MaxPeStep == 4
MaxPbStep == 4

ScorePeInputs ==
    {None, Num(-3), Num(12), Rat(1667, 100), Num(31), Num(500)}
    \cup {Num(10 * k) : k \in 0..MaxPeStep}

ScorePbInputs ==
    {None, Num(-1), Rat(33, 100), Rat(12, 10), Rat(5, 2), Num(100)}
    \cup {Num(k) : k \in 0..MaxPbStep}

InitValuation ==
    /\ \E pe \in ScorePeInputs, pb \in ScorePbInputs :
          info = [Blank EXCEPT !.pe_ratio = pe, !.pb_ratio = pb]
    /\ stock = NoStock
    /\ fdr_data = NoFdr
    /\ op = "init"
    /\ result = None
    /\ NoCache

NextValuation == ScoreValuation

SpecValuation == InitValuation /\ [][NextValuation]_vars

\* pe_score as stated.
PeScore(pe) ==
    IF IsNone(pe) \/ RLe(pe, Num(0)) THEN Num(50)
    ELSE IF RLe(pe, Num(10)) THEN RSub(Num(100), RMul(pe, Num(2)))
    ELSE IF RLe(pe, Num(20)) THEN RSub(Num(80), RMul(RSub(pe, Num(10)), Num(3)))
    ELSE IF RLe(pe, Num(30)) THEN RSub(Num(50), RMul(RSub(pe, Num(20)), Num(3)))
    ELSE RMax(Num(0), RSub(Num(20), RSub(pe, Num(30))))

\* pb_score as stated.
PbScore(pb) ==
    IF IsNone(pb) \/ RLe(pb, Num(0)) THEN Num(50)
    ELSE IF RLe(pb, Num(1)) THEN RSub(Num(100), RMul(pb, Num(20)))
    ELSE IF RLe(pb, Num(2)) THEN RSub(Num(80), RMul(RSub(pb, Num(1)), Num(30)))
    ELSE IF RLe(pb, Num(3)) THEN RSub(Num(50), RMul(RSub(pb, Num(2)), Num(30)))
    ELSE RMax(Num(0), RSub(Num(20), RMul(RSub(pb, Num(3)), Num(5))))

StatedValuation ==
    RAdd(RMul(PeScore(info.pe_ratio), Rat(1, 2)), RMul(PbScore(info.pb_ratio), Rat(1, 2)))

\* C15 as stated: valuation = 0.5*pe_score + 0.5*pb_score, the bare sum.
C15_ValuationUnrounded ==
    op = "_score_valuation" => result = StatedValuation

\* C15 amended: valuation is 0.5*pe_score + 0.5*pb_score rounded to one
\* decimal; pe_score and pb_score are 50 for an absent or non-positive ratio
\* (so the cascade default 0.0 scores 50, not 100) and otherwise the stated
\* piecewise functions, with pe_score(10) = 80, pe_score(20) = 50,
\* pe_score(30) = 20 and pe_score(31) = 19.
C15_ValuationRounded ==
    /\ op = "_score_valuation" => result = Round(StatedValuation, 1)
    /\ op = "_score_valuation" /\ IsNone(info.pb_ratio)
       => /\ info.pe_ratio = Num(0) => result = Num(50)
          /\ info.pe_ratio = Num(10) => result = Num(65)
          /\ info.pe_ratio = Num(20) => result = Num(50)
          /\ info.pe_ratio = Num(30) => result = Num(35)
          /\ info.pe_ratio = Num(31) => result = Rat(69, 2)
    /\ op = "_score_valuation" /\ info.pe_ratio = Num(0) /\ info.pb_ratio = Num(0)
       => result = Num(50)

\* C15 witness: PER 16.67 (pe_score 59.99) and PBR 0.33 (pb_score 93.4) have
\* been scored 76.7, the one-decimal rounding of 76.695.
C15_Witness ==
    /\ op = "_score_valuation"
    /\ info.pe_ratio = Rat(1667, 100)
    /\ info.pb_ratio = Rat(33, 100)
    /\ StatedValuation = Rat(76695, 1000)
    /\ result = Rat(767, 10)

(***************************************************************************)
(* SpecMomentum: _score_momentum over prices and 52-week ranges            *)
(***************************************************************************)
\* Prices tried: 80, 90, .. up to 80 + 10 * MaxMomentumStep, and a few others.
MaxMomentumStep == 5

MomentumPriceInputs ==
    {Num(0), Num(97), Num(1000)} \cup {Num(80 + 10 * k) : k \in 0..MaxMomentumStep}

MomentumRangeInputs ==
    {<<None, None>>, <<Num(80), None>>, <<None, Num(120)>>, <<Num(80), Num(120)>>,
     <<Num(120), Num(80)>>, <<Num(100), Num(100)>>, <<Num(80), Num(123)>>,
     <<Num(90), Num(130)>>}

InitMomentum ==
    /\ \E p \in MomentumPriceInputs, r \in MomentumRangeInputs :
          info = [Blank EXCEPT !.current_price = p,
                               !.fifty_two_week_low = r[1],
                               !.fifty_two_week_high = r[2]]
    /\ stock = NoStock
    /\ fdr_data = NoFdr
    /\ op = "init"
    /\ result = None
    /\ NoCache

NextMomentum == ScoreMomentum

SpecMomentum == InitMomentum /\ [][NextMomentum]_vars

\* momentum as stated: 50 when a bound is absent or low >= high, otherwise
\* 20 + 80 * (price - low) / (high - low).
StatedMomentum ==
    LET low == info.fifty_two_week_low
        high == info.fifty_two_week_high
    IN  IF IsNone(low) \/ IsNone(high) THEN Num(50)
        ELSE IF RGe(low, high) THEN Num(50)
        ELSE RAdd(Num(20),
                  RDiv(RMul(Num(80), RSub(info.current_price, low)), RSub(high, low)))

\* C16 as stated: _score_momentum returns 50 when either 52-week bound is
\* absent or low >= high, and otherwise 20 + 80*(price - low)/(high - low).
C16_MomentumUnrounded ==
    op = "_score_momentum" => result = StatedMomentum

\* C16 amended: _score_momentum returns 50 when either 52-week bound is
\* absent or low >= high, and otherwise 20 + 80*(price - low)/(high - low)
\* rounded to one decimal: 20.0 at the low, 100.0 at the high and 60.0 at the
\* midpoint.
C16_MomentumRounded ==
    op = "_score_momentum" =>
        /\ result = Round(StatedMomentum, 1)
        /\ ~IsNone(info.fifty_two_week_low) /\ ~IsNone(info.fifty_two_week_high)
           /\ RLt(info.fifty_two_week_low, info.fifty_two_week_high)
           => /\ info.current_price = info.fifty_two_week_low => result = Num(20)
              /\ info.current_price = info.fifty_two_week_high => result = Num(100)
              /\ RAdd(info.current_price, info.current_price)
                   = RAdd(info.fifty_two_week_low, info.fifty_two_week_high)
                 => result = Num(60)

\* C16 witness: the price 97 in the range [80, 123] has been scored 51.6, the
\* one-decimal rounding of 20 + 80 * 17/43.
C16_Witness ==
    /\ op = "_score_momentum"
    /\ info.current_price = Num(97)
    /\ info.fifty_two_week_low = Num(80)
    /\ info.fifty_two_week_high = Num(123)
    /\ result = Rat(516, 10)

(***************************************************************************)
(* SpecStability: _score_stability over market caps and betas              *)
(***************************************************************************)
\* Betas tried: the quarters from 0 to MaxBetaStep / 4, and a few others.
MaxBetaStep == 8

StabilityCapInputs ==
    {None, Num(50), Num(CapTier60 - 1), Num(CapTier60), Num(CapTier80 - 1),
     Num(CapTier80), Num(5000), Num(CapTier100 - 1), Num(CapTier100), Num(20000)}

StabilityBetaInputs ==
    {None, Rat(-1, 2), Rat(4, 5), Rat(6, 5), Rat(1777, 1000), Num(10)}
    \cup {Rat(k, 4) : k \in 0..MaxBetaStep}

InitStability ==
    /\ \E cap \in StabilityCapInputs, b \in StabilityBetaInputs :
          info = [Blank EXCEPT !.market_cap = cap, !.beta = b]
    /\ stock = NoStock
    /\ fdr_data = NoFdr
    /\ op = "init"
    /\ result = None
    /\ NoCache

NextStability == ScoreStability

SpecStability == InitStability /\ [][NextStability]_vars

\* cap_score as stated, with 1e12, 1e11 and 1e10 in units of 1e8.
CapScore(cap) ==
    IF IsNone(cap) THEN Num(50)
    ELSE IF RGe(cap, Num(10000)) THEN Num(100)
    ELSE IF RGe(cap, Num(1000)) THEN Num(80)
    ELSE IF RGe(cap, Num(100)) THEN Num(60)
    ELSE Num(40)

\* beta_score as stated.
BetaScore(b) ==
    IF IsNone(b) THEN Num(50)
    ELSE IF RGe(b, Rat(4, 5)) /\ RLe(b, Rat(6, 5)) THEN Num(100)
    ELSE IF RGe(b, Rat(1, 2)) /\ RLt(b, Rat(4, 5))
         THEN RAdd(Num(80), RDiv(RMul(RSub(b, Rat(1, 2)), Num(200)), Num(3)))
    ELSE IF RGt(b, Rat(6, 5)) /\ RLe(b, Rat(3, 2))
         THEN RSub(Num(100), RDiv(RMul(RSub(b, Rat(6, 5)), Num(200)), Num(3)))
    ELSE IF RLt(b, Rat(1, 2)) THEN RAdd(Num(60), RMul(b, Num(40)))
    ELSE RMax(Num(0), RSub(Num(80), RMul(RSub(b, Rat(3, 2)), Num(10))))

StatedStability ==
    RAdd(RMul(CapScore(info.market_cap), Rat(1, 2)), RMul(BetaScore(info.beta), Rat(1, 2)))

\* C17 as stated: stability = 0.5*cap_score + 0.5*beta_score, the bare sum.
C17_StabilityUnrounded ==
    op = "_score_stability" => result = StatedStability

\* C17 amended: stability is 0.5*cap_score + 0.5*beta_score rounded to one
\* decimal, with cap_score 100 / 80 / 60 / 40 by the tiers 1e12, 1e11, 1e10
\* (50 when absent) and beta_score the stated piecewise function (50 when
\* absent).
C17_StabilityRounded ==
    op = "_score_stability" => result = Round(StatedStability, 1)

\* C17 witness: the market cap 5e11 (cap_score 80) and beta 1.25 (beta_score
\* 96.66..) have been scored 88.3, the one-decimal rounding of 88.33..
C17_Witness ==
    /\ op = "_score_stability"
    /\ info.market_cap = Num(5000)
    /\ info.beta = Rat(5, 4)
    /\ StatedStability = Rat(265, 3)
    /\ result = Rat(883, 10)

(***************************************************************************)
(* SpecFormat: the formatters on the payload's metrics (service.py         *)
(* 134-152), and the payload built from the same provider record           *)
(***************************************************************************)
FormatCurrency ==
    \E is_korean \in BOOLEAN :
        Apply("format_currency", format_currency(info.current_price, is_korean))

FormatDividend ==
    \E is_korean \in BOOLEAN :
        Apply("format_dividend", format_dividend(info.dividend_yield, is_korean))

FormatMarketCap == Apply("format_market_cap", format_market_cap(info.market_cap))

FormatRoe == Apply("format_roe", format_roe(info.roe))

FormatEps ==
    \E is_korean \in BOOLEAN :
        Apply("format_eps", format_eps(info.eps, is_korean))

FormatPeRatio ==
    \E is_korean \in BOOLEAN :
        Apply("format_pe_ratio", format_pe_ratio(info.pe_ratio, is_korean))

FormatPbRatio ==
    \E is_korean \in BOOLEAN :
        Apply("format_pb_ratio", format_pb_ratio(info.pb_ratio, is_korean))

FormatBeta == Apply("format_beta", format_beta(info.beta))

\* Absent, zero, and one value with more decimals than the format keeps.
FormatPriceInputs == {None, Num(0), Rat(1234567, 1000)}
FormatDividendInputs == {None, Num(0), Rat(3456, 1000)}
FormatCapInputs == {None, Num(0), Rat(98765, 10)}
FormatRoeInputs == {None, Num(0), Rat(1234, 100)}
FormatEpsInputs == {None, Num(0), Rat(54, 10)}
FormatPeInputs == {None, Num(0), Rat(1234, 100)}
FormatPbInputs == {None, Num(0), Rat(126, 100)}
FormatBetaInputs == {None, Rat(1234, 1000)}

InitFormat ==
    /\ \E price \in FormatPriceInputs, dy \in FormatDividendInputs,
          cap \in FormatCapInputs, r \in FormatRoeInputs,
          e \in FormatEpsInputs, pe \in FormatPeInputs,
          pb \in FormatPbInputs, b \in FormatBetaInputs :
          info = [Blank EXCEPT !.current_price = price, !.dividend_yield = dy,
                               !.market_cap = cap, !.roe = r, !.eps = e,
                               !.pe_ratio = pe, !.pb_ratio = pb, !.beta = b]
    /\ stock = NoStock
    /\ fdr_data = NoFdr
    /\ op = "init"
    /\ result = None
    /\ NoCache

NextFormat ==
    \/ FormatCurrency
    \/ FormatDividend
    \/ FormatMarketCap
    \/ FormatRoe
    \/ FormatEps
    \/ FormatPeRatio
    \/ FormatPbRatio
    \/ FormatBeta
    \/ GetStockInfo

SpecFormat == InitFormat /\ [][NextFormat]_vars

\* Null, or the zero that encodes "unknown".
Unknown(x) == IsNone(x) \/ x = Num(0)

\* C18: every formatter returns its one sentinel for a null input and for a
\* zero input that encodes unknown: format_currency "-", format_dividend and
\* format_market_cap "N/A", format_pe_ratio and format_pb_ratio "N/A" (also
\* for the cascade's default 0.0), so a payload whose PER or PBR cascade was
\* exhausted shows "N/A" in pe_ratio_str / pb_ratio_str.
C18_FormatterSentinels ==
    /\ op = "format_currency" /\ Unknown(info.current_price)
          => result = Sentinel("-")
    /\ op = "format_dividend" /\ Unknown(info.dividend_yield)
          => result = Sentinel("N/A")
    /\ op = "format_market_cap" /\ Unknown(info.market_cap)
          => result = Sentinel("N/A")
    /\ op = "format_pe_ratio" /\ Unknown(info.pe_ratio)
          => result = Sentinel("N/A")
    /\ op = "format_pb_ratio" /\ Unknown(info.pb_ratio)
          => result = Sentinel("N/A")
    /\ op \in {"format_roe", "format_eps", "format_beta"} /\ IsNone(result[3])
          => result = Sentinel("N/A")
    /\ op = "get_stock_info"
          => /\ result.pe_ratio = Num(0) => result.pe_ratio_str = Sentinel("N/A")
             /\ result.pb_ratio = Num(0) => result.pb_ratio_str = Sentinel("N/A")

\* The part of C18 that the formatters do satisfy: the sentinels of
\* format_currency, format_dividend and format_market_cap for null and zero,
\* and "N/A" from every other formatter for null.
C18_SentinelsForNull ==
    /\ op = "format_currency" /\ Unknown(info.current_price)
          => result = Sentinel("-")
    /\ op = "format_dividend" /\ Unknown(info.dividend_yield)
          => result = Sentinel("N/A")
    /\ op = "format_market_cap" /\ Unknown(info.market_cap)
          => result = Sentinel("N/A")
    /\ op = "format_pe_ratio" /\ IsNone(info.pe_ratio) => result = Sentinel("N/A")
    /\ op = "format_pb_ratio" /\ IsNone(info.pb_ratio) => result = Sentinel("N/A")
    /\ op = "format_roe" /\ IsNone(info.roe) => result = Sentinel("N/A")
    /\ op = "format_eps" /\ IsNone(info.eps) => result = Sentinel("N/A")
    /\ op = "format_beta" /\ IsNone(info.beta) => result = Sentinel("N/A")

(***************************************************************************)
(* SpecCache: StockService.get_stock_info with its cache (service.py       *)
(* 52-70, 280, 297-299, 400-413).  The clock counts half hours.  The       *)
(* provider is any implementation of BaseStockProvider: each of its two    *)
(* methods returns or raises.                                              *)
(***************************************************************************)
\* timedelta(hours=1), in half hours.
Hour == 2

MaxTime == 3

\* The tickers callers pass, already in ticker format (_is_ticker_format
\* upper-cases before it matches, so search_ticker is not called).
Tickers == {"aapl", "AAPL", "005930.ks"}

\* str.upper on the tickers above.
upper(ticker) ==
    CASE ticker = "aapl" -> "AAPL"
      [] ticker = "005930.ks" -> "005930.KS"
      [] OTHER -> ticker

\* ticker.upper().endswith((".KS", ".KQ"))
is_korean_ticker(ticker) == upper(ticker) \in {"005930.KS", "035720.KQ"}

\* What the provider can serve at the time of a call.
ProviderRecords ==
    { [Blank EXCEPT !.current_price = Num(100), !.pe_ratio = Num(10)],
      [Blank EXCEPT !.current_price = Num(110)] }

NewsInputs == { <<>>, <<"headline">> }

\* The freshness query without its freshness filter.
cache_query_any_age(table, key, cache_valid_until) == table[key]

\* db.query(StockAnalysisLog).filter(ticker == key,
\*                                   updated_at >= cache_valid_until).first()
cache_query(table, key, cache_valid_until) ==
    IF table[key] # NoRow /\ table[key].updated_at >= cache_valid_until
    THEN table[key]
    ELSE NoRow

\* _save_to_db storing the payload without its news.
_save_to_db_without_news(table, ticker, data, news, time, commit_ok) ==
    IF commit_ok
    THEN [table EXCEPT ![upper(ticker)] =
             [updated_at |-> time, price |-> data.current_price,
              analysis_json |-> [stock_data |-> data, news |-> <<>>]]]
    ELSE table

\* The table after _save_to_db: the row of the upper-cased ticker is updated
\* or added (both leave the same row: updated_at is the time of the write),
\* unless the session raises, and then the rollback leaves the table as it
\* was.
_save_to_db(table, ticker, data, news, time, commit_ok) ==
    IF commit_ok
    THEN [table EXCEPT ![upper(ticker)] =
             [updated_at |-> time, price |-> data.current_price,
              analysis_json |-> [stock_data |-> data, news |-> news]]]
    ELSE table

\* One call of StockService.get_stock_info(ticker, db).
GetStockInfoCall(ticker) ==
    LET key == upper(ticker)
        cache_valid_until == now - Hour
        cached_log == cache_query(db, key, cache_valid_until)
    IN  /\ op' = "get_stock_info"
        /\ UNCHANGED <<stock, fdr_data, now, provider, master, token, pc>>
        /\ IF cached_log # NoRow
           THEN /\ result' = [stock_data |-> cached_log.analysis_json.stock_data,
                              news |-> cached_log.analysis_json.news]
                /\ io' = << <<"read", key>> >>
                /\ UNCHANGED <<info, db>>
           ELSE \/ \* provider.get_stock_info raises
                   /\ result' = [raised |-> "get_stock_info"]
                   /\ io' = << <<"read", key>>, <<"provider", ticker>> >>
                   /\ UNCHANGED <<info, db>>
                \/ \* provider.get_news raises
                   \E i \in ProviderRecords :
                      /\ info' = i
                      /\ result' = [raised |-> "get_news"]
                      /\ io' = << <<"read", key>>, <<"provider", ticker>>,
                                  <<"news", ticker>> >>
                      /\ UNCHANGED db
                \/ \E i \in ProviderRecords, news \in NewsInputs,
                      commit_ok \in BOOLEAN :
                      LET data == get_stock_info(i, is_korean_ticker(ticker))
                      IN  /\ info' = i
                          /\ result' = [stock_data |-> data, news |-> news]
                          /\ db' = _save_to_db(db, ticker, data, news, now,
                                               commit_ok)
                          /\ io' = << <<"read", key>>, <<"provider", ticker>>,
                                      <<"news", ticker>>, <<"read", key>>,
                                      <<IF commit_ok THEN "write" ELSE "rollback",
                                        key>> >>

\* Half an hour passes between two calls.
Tick ==
    /\ now < MaxTime
    /\ now' = now + 1
    /\ op' = "tick"
    /\ io' = <<>>
    /\ UNCHANGED <<info, stock, fdr_data, result, db, provider,
                   master, token, pc>>

InitCache ==
    /\ info = Blank
    /\ stock = NoStock
    /\ fdr_data = NoFdr
    /\ op = "init"
    /\ result = [raised |-> "none"]
    /\ db = EmptyTable
    /\ now = 0
    /\ io = <<>>
    /\ provider = "BaseStockProvider"
    /\ NoService

NextCache ==
    \/ \E ticker \in Tickers : GetStockInfoCall(ticker)
    \/ Tick

SpecCache == InitCache /\ [][NextCache]_vars

\* A step that is one call of get_stock_info: Tick leaves op = "tick", so a
\* step into op = "get_stock_info" is a call, and its trace starts with the
\* cache read under the upper-cased ticker.
IsCall == op' = "get_stock_info"

\* The row the table held, before the call, for the call's upper-cased ticker.
Row == db[io'[1][2]]

\* The step returned the cached stock_data and news of that row and made no
\* provider call and no cache write.
ReturnedCached ==
    /\ Row # NoRow
    /\ result' = [stock_data |-> Row.analysis_json.stock_data,
                  news |-> Row.analysis_json.news]
    /\ \A k \in 1..Len(io') : io'[k][1] \notin {"provider", "news", "write"}
    /\ db' = db

\* The step called the provider right after its cache read.
Recomputed ==
    /\ Len(io') >= 2
    /\ io'[2][1] = "provider"
    /\ upper(io'[2][2]) = io'[1][2]

\* C19 as stated: a call returns the cached stock_data and news, with no
\* provider call and no cache write, if and only if the cache holds a record
\* for the upper-cased ticker that is less than 1 hour old; a record older
\* than 1 hour is never returned, and the call then recomputes.
C19_HitIffYoungerThanHour ==
    [][IsCall =>
          /\ ReturnedCached <=> (Row # NoRow /\ now - Row.updated_at < Hour)
          /\ Row # NoRow /\ now - Row.updated_at > Hour
                => ~ReturnedCached /\ Recomputed]_vars

\* C19 amended: a call returns the cached stock_data and news, with no
\* provider call and no cache write, if and only if the cache holds a record
\* for the upper-cased ticker that is at most 1 hour old (a record exactly
\* 1 hour old is still served); otherwise, and so for every record older than
\* 1 hour, the call goes to the provider.
C19_HitIffWithinHour ==
    [][IsCall =>
          /\ ReturnedCached <=> (Row # NoRow /\ now - Row.updated_at <= Hour)
          /\ ~ReturnedCached => Recomputed
          /\ Row # NoRow /\ now - Row.updated_at > Hour => ~ReturnedCached]_vars

\* C19 witness: a call for "aapl" has been served the row of "AAPL" written
\* exactly one hour before, by the cache read alone.
C19_Witness ==
    /\ op = "get_stock_info"
    /\ io = << <<"read", "AAPL">> >>
    /\ db["AAPL"] # NoRow
    /\ now - db["AAPL"].updated_at = Hour
    /\ result = [stock_data |-> db["AAPL"].analysis_json.stock_data,
                 news |-> db["AAPL"].analysis_json.news]

\* How many events of one kind the call's trace holds.
Count(kind) == Cardinality({k \in 1..Len(io) : io[k][1] = kind})

\* The call went past the cache (a miss) and returned a payload.
CompletedMiss ==
    /\ op = "get_stock_info"
    /\ Count("provider") = 1
    /\ "raised" \notin DOMAIN result

\* The row of the call's upper-cased ticker holds the payload the call
\* returned.
WrotePayloadReturned ==
    LET row == db[io[1][2]]
    IN  /\ row # NoRow
        /\ row.analysis_json = [stock_data |-> result.stock_data,
                                news |-> result.news]

C21_FailuresPropagate ==
    op = "get_stock_info" /\ "raised" \notin DOMAIN result
       => \A k \in 1..Len(io) : io[k][1] # "rollback"

(***************************************************************************)
(* The providers: provider.py (StockProvider, the default of the service), *)
(* yahoo_provider.py and kis_provider.py                                   *)
(***************************************************************************)
Providers == {"StockProvider", "YahooStockProvider", "KisStockProvider"}

\* An exception leaving a call, by its class.
Raise(exc) == [raised |-> exc]

IsRaise(x) == "raised" \in DOMAIN x

\* YahooStockProvider.get_stock_info on the record _get_info returns (empty
\* when the upstream call failed or returned nothing): the standardized
\* record has the keys of lines 267-285 and no other.
yahoo_get_stock_info(raw, stk) ==
    LET current_price == _calculate_current_price(raw, stk)
        roe_percent == IF IsNone(raw.returnOnEquity) THEN None
                       ELSE RMul(raw.returnOnEquity, Num(100))
        from_yield ==
            IF IsNone(raw.dividendYield) THEN None
            ELSE IF RLt(raw.dividendYield, Num(1))
                 THEN RMul(raw.dividendYield, Num(100))
                 ELSE raw.dividendYield
        dividend_yield ==
            IF ~IsNone(from_yield) THEN from_yield
            ELSE IF ~IsNone(raw.dividendRate) /\ Truthy(current_price)
                    /\ RGt(current_price, Num(0))
                 THEN RMul(RDiv(raw.dividendRate, current_price), Num(100))
                 ELSE None
    IN  [Blank EXCEPT
           !.current_price = current_price,
           !.previous_close = raw.previousClose,
           !.market_cap = raw.marketCap,
           !.pe_ratio = Or(raw.trailingPE, raw.forwardPE),
           !.pb_ratio = raw.priceToBook,
           !.eps = _calculate_eps(raw, current_price),
           !.dividend_yield = dividend_yield,
           !.roe = roe_percent,
           !.fifty_two_week_low = raw.fiftyTwoWeekLow,
           !.fifty_two_week_high = raw.fiftyTwoWeekHigh,
           !.target_mean_price = raw.targetMeanPrice]

\* A KIS quotation record: the keys the conversion reads.
KisBlank ==
    [ stck_prpr |-> None, hts_avls |-> None, prdy_clpr |-> None,
      stck_hgpr |-> None, stck_lwpr |-> None, per |-> None, pbr |-> None,
      eps |-> None, dvyd |-> None ]

\* KisStockProvider._convert_kis_response_to_standard_format: each field is
\* converted under its own try, but the dict it returns reads the name
\* korean_stock_name (line 984), which is bound nowhere in the function or
\* the module (the local is korean_name), so building the dict raises
\* NameError for every record.
_convert_kis_response_to_standard_format(kis_data) == Raise("NameError")

\* KisStockProvider.get_stock_info: only .KS / .KQ tickers, the quotation
\* call re-raises what the upstream call raised, then the conversion.
kis_get_stock_info(ticker, upstream, kis_data) ==
    IF ~is_korean_ticker(ticker) THEN Raise("ValueError")
    ELSE IF upstream = "fails" THEN Raise("HTTPError")
    ELSE _convert_kis_response_to_standard_format(kis_data)

(***************************************************************************)
(* SpecRequest: one GET /{ticker} request (stocks.py 58-86) through the    *)
(* service built with one of the providers, on the empty cache table       *)
(***************************************************************************)
\* What callers put in the path, upper-cased by the endpoint: three tickers
\* with data upstream, a ticker-shaped symbol nothing is listed under, a name
\* of the ticker-name cache and a name no search resolves.
Queries ==
    {"AAPL", "005930.KS", "035720.KQ", "ZZZZ", "SAMSUNG ELEC", "NO SUCH CO"}

\* StockProvider._is_ticker_format: ^[A-Z0-9]{1,10}(\.KS|\.KQ)?$
_is_ticker_format(query) == query \in {"AAPL", "005930.KS", "035720.KQ", "ZZZZ"}

\* StockProvider.search_ticker on a query that is not ticker-shaped: the
\* ticker-name cache, else the yfinance search, whose failure is a ValueError.
search_ticker(query) ==
    IF query = "SAMSUNG ELEC" THEN "005930.KS" ELSE "ValueError"

\* The raw records Yahoo serves: nothing, two records with a beta and two
\* with balance-sheet figures.
YahooRecords ==
    { Blank,
      [Blank EXCEPT !.currentPrice = Num(110), !.trailingPE = Num(12),
                    !.priceToBook = Rat(6, 5), !.returnOnEquity = Rat(18, 100),
                    !.beta = Num(1), !.marketCap = Num(5000),
                    !.fiftyTwoWeekLow = Num(80), !.fiftyTwoWeekHigh = Num(120)],
      [Blank EXCEPT !.currentPrice = Num(50), !.marketCap = Num(1000),
                    !.netIncomeToCommon = Num(100), !.forwardPE = Num(15),
                    !.beta = Num(2), !.sharesOutstanding = Num(10),
                    !.dividendRate = Num(1)],
      [Blank EXCEPT !.previousClose = Num(20), !.dividendYield = Rat(2, 100),
                    !.bookValue = Num(10), !.totalStockholderEquity = Num(400)],
      [Blank EXCEPT !.regularMarketPrice = Num(30), !.trailingEps = Num(3),
                    !.totalAssets = Num(900), !.totalLiabilities = Num(300)] }

\* The 5-day history of closes Yahoo serves: none, or one close.
YahooCloses == { <<>>, <<Num(42)>> }

KisRecords == { KisBlank, [KisBlank EXCEPT !.stck_prpr = Num(70000)] }

\* The HTTP answer of the endpoint for what the service call did.
Response(outcome) ==
    IF ~IsRaise(outcome)
    THEN [status |-> 200, stock_data |-> outcome.stock_data, news |-> outcome.news]
    ELSE [status |-> IF outcome.raised = "ValueError" THEN 404 ELSE 500,
          raised |-> outcome.raised]

\* The upstream call a provider's get_stock_info makes: none by
\* StockProvider, which has no such method, and none by KisStockProvider for
\* a ticker it rejects.
UpstreamCall(ticker, upstream) ==
    IF provider = "YahooStockProvider"
       \/ (provider = "KisStockProvider" /\ is_korean_ticker(ticker))
    THEN << <<"upstream", upstream>> >>
    ELSE <<>>

\* get_stock: the endpoint upper-cases the path parameter, calls the service
\* and maps ValueError to 404 and every other exception to 500.
GetStock(query) ==
    /\ op = "init"
    /\ op' = "get_stock"
    /\ UNCHANGED <<stock, fdr_data, now, provider, master, token, pc>>
    /\ IF ~_is_ticker_format(query) /\ provider # "StockProvider"
       THEN \* self.provider.search_ticker: the provider has no such method
            /\ result' = Response(Raise("AttributeError"))
            /\ io' = << <<"search", query>> >>
            /\ UNCHANGED <<info, db>>
       ELSE IF ~_is_ticker_format(query) /\ search_ticker(query) = "ValueError"
       THEN /\ result' = Response(Raise("ValueError"))
            /\ io' = << <<"search", query>> >>
            /\ UNCHANGED <<info, db>>
       ELSE
         LET ticker == IF _is_ticker_format(query) THEN query
                       ELSE search_ticker(query)
             key == upper(ticker)
             head == (IF _is_ticker_format(query) THEN <<>>
                      ELSE << <<"search", query>> >>)
                     \o << <<"read", key>> >>
             cached_log == cache_query(db, key, now - Hour)
         IN  IF cached_log # NoRow
             THEN /\ result' = Response([stock_data |-> cached_log.analysis_json.stock_data,
                                         news |-> cached_log.analysis_json.news])
                  /\ io' = head
                  /\ UNCHANGED <<info, db>>
             ELSE
               \E upstream \in {"fails", "nothing", "data"} :
               \E fetched \in
                     IF provider = "StockProvider"
                     THEN \* self.provider.get_stock_info: no such method
                          {Raise("AttributeError")}
                     ELSE IF provider = "YahooStockProvider"
                     THEN IF upstream = "data"
                          THEN {yahoo_get_stock_info(raw, [history |-> <<>>]) :
                                  raw \in YahooRecords \ {Blank}}
                               \cup {yahoo_get_stock_info(Blank, [history |-> closes]) :
                                       closes \in YahooCloses \ {<<>>}}
                          ELSE {yahoo_get_stock_info(Blank, [history |-> <<>>])}
                     ELSE {kis_get_stock_info(ticker, upstream, kis_data) :
                             kis_data \in IF upstream = "data"
                                          THEN KisRecords \ {KisBlank}
                                          ELSE {KisBlank}} :
                 IF IsRaise(fetched)
                 THEN /\ result' = Response(fetched)
                      /\ io' = head \o << <<"provider", provider>> >>
                                   \o UpstreamCall(ticker, upstream)
                      /\ UNCHANGED <<info, db>>
                 ELSE
                   \E news \in (IF provider = "YahooStockProvider"
                                THEN NewsInputs ELSE {<<>>}),
                      commit_ok \in BOOLEAN :
                     LET data == get_stock_info(fetched, is_korean_ticker(ticker))
                     IN  /\ info' = fetched
                         /\ result' = Response([stock_data |-> data, news |-> news])
                         /\ db' = _save_to_db(db, ticker, data, news, now, commit_ok)
                         /\ io' = head \o
                                  << <<"provider", provider>> >> \o
                                  UpstreamCall(ticker, upstream) \o
                                  << <<"news", provider>>, <<"read", key>>,
                                     <<IF commit_ok THEN "write" ELSE "rollback",
                                       key>> >>

InitRequest ==
    /\ info = Blank
    /\ stock = NoStock
    /\ fdr_data = NoFdr
    /\ op = "init"
    /\ result = [raised |-> "none"]
    /\ db = EmptyTable
    /\ now = 0
    /\ io = <<>>
    /\ provider \in Providers
    /\ NoService

NextRequest == \E query \in Queries : GetStock(query)

SpecRequest == InitRequest /\ [][NextRequest]_vars

\* The request named a query that no search resolves.
Unresolvable == Len(io) >= 1 /\ io[1] = <<"search", "NO SUCH CO">>

\* The provider went upstream and the call failed or returned nothing.
NothingFetched ==
    \E k \in 1..Len(io) : io[k][1] = "upstream" /\ io[k][2] \in {"fails", "nothing"}

\* C22: when the ticker cannot be resolved by search, or no data can be
\* fetched for it upstream (the call fails or returns nothing), the request
\* ends with a ValueError, mapped to HTTP 404, and returns no payload.
C22_NotFoundWhenNothingFetched ==
    op = "get_stock" /\ (Unresolvable \/ NothingFetched)
       => /\ result.status = 404
          /\ IsRaise(result)
          /\ result.raised = "ValueError"

\* The provider returned a record and the service went on to the headlines.
Fetched == \E k \in 1..Len(io) : io[k][1] = "news"

\* The normalized record the provider returned has every financial field
\* absent (Yahoo's record carries the price 0 when it found none).
EveryFieldAbsent == [info EXCEPT !.current_price = None] = Blank
                    /\ info.current_price \in {None, Num(0)}

ProvidersCalled == SelectSeq(io, LAMBDA e : e[1] = "provider")

\* The ticker the request looked up in the cache.
RequestKey == SelectSeq(io, LAMBDA e : e[1] = "read")[1][2]

\* C24: on a cache miss a domestic ticker (.KS/.KQ) goes to the domestic
\* provider and any other ticker to the international provider, and the
\* request fails only after both providers have been called and failed.
C24_RoutingWithFallback ==
    op = "get_stock" /\ ProvidersCalled # <<>> =>
       /\ ProvidersCalled[1][2] =
             (IF is_korean_ticker(RequestKey) THEN "KisStockProvider"
              ELSE "YahooStockProvider")
       /\ result.status # 200 =>
             {ProvidersCalled[k][2] : k \in 1..Len(ProvidersCalled)}
                = {"KisStockProvider", "YahooStockProvider"}

(***************************************************************************)
(* SpecNormalize: the two normalizations applied to raw records with any   *)
(* subset of their fields missing                                          *)
(***************************************************************************)
\* A Yahoo record with the fields the normalization reads directly and three
\* of the fields only the calculator reads.
YahooFull ==
    [Blank EXCEPT !.currentPrice = Num(110), !.marketCap = Num(5000),
                  !.trailingPE = Num(12), !.priceToBook = Rat(6, 5),
                  !.returnOnEquity = Rat(18, 100),
                  !.dividendYield = Rat(2, 100), !.beta = Num(2),
                  !.netIncomeToCommon = Num(100), !.bookValue = Num(10)]

\* A KIS quotation record with every field the conversion reads.
KisFull ==
    [KisBlank EXCEPT !.stck_prpr = Num(70000), !.hts_avls = Num(4000000),
                     !.per = Num(12), !.pbr = Rat(6, 5), !.eps = Num(5800)]

\* The record r with the fields outside keep missing.
MissingOutside(r, keep) ==
    [f \in DOMAIN r |-> IF f \in keep THEN r[f] ELSE None]

YahooRawRecords ==
    {MissingOutside(YahooFull, keep) :
       keep \in SUBSET {"currentPrice", "marketCap", "trailingPE",
                        "priceToBook", "returnOnEquity", "dividendYield",
                        "beta", "netIncomeToCommon", "bookValue"}}

KisRawRecords ==
    {MissingOutside(KisFull, keep) :
       keep \in SUBSET {"stck_prpr", "hts_avls", "per", "pbr", "eps"}}

IsKisRecord(r) == "stck_prpr" \in DOMAIN r

YahooNormalize ==
    /\ ~IsKisRecord(info)
    /\ Apply("yahoo_get_stock_info", yahoo_get_stock_info(info, stock))

KisNormalize ==
    /\ IsKisRecord(info)
    /\ Apply("_convert_kis_response_to_standard_format",
             _convert_kis_response_to_standard_format(info))

InitNormalize ==
    /\ info \in YahooRawRecords \cup KisRawRecords
    /\ stock = [history |-> <<>>]
    /\ fdr_data = NoFdr
    /\ op = "init"
    /\ result = None
    /\ NoCache

NextNormalize == YahooNormalize \/ KisNormalize

SpecNormalize == InitNormalize /\ [][NextNormalize]_vars

\* C25: normalization never fails on missing fields: for every raw record,
\* Yahoo or KIS, with any subset of its fields missing it returns a
\* normalized record, each field mapped on its own and a missing field
\* absent.
C25_NormalizationNeverFails ==
    op \in {"yahoo_get_stock_info", "_convert_kis_response_to_standard_format"}
       => /\ ~IsRaise(result)
          /\ IsNone(result.market_cap) =
                IsNone(IF IsKisRecord(info) THEN info.hts_avls
                       ELSE info.marketCap)
          /\ IsNone(result.pb_ratio) =
                IsNone(IF IsKisRecord(info) THEN info.pbr
                       ELSE info.priceToBook)

\* The raw keys of the canonical numeric fields the calculator and the score
\* engine read beside the standardized ones.
CanonicalFields ==
    {"beta", "forwardPE", "netIncomeToCommon", "totalStockholderEquity",
     "totalAssets", "totalLiabilities", "bookValue", "sharesOutstanding",
     "dividendRate"}

\* C26: every canonical numeric field present in the raw record is present
\* with the same value in the record the calculator and the score engine
\* consume inside get_stock_info (the normalized record in the calculator's
\* key format).
C26_CanonicalFieldsSurvive ==
    op = "yahoo_get_stock_info" /\ ~IsRaise(result) =>
       LET calc_info == _convert_to_calculator_format(result)
       IN  \A f \in CanonicalFields :
              ~IsNone(info[f]) => calc_info[f] = info[f]

(***************************************************************************)
(* SpecTables: the in-process lookup tables, from the construction of the  *)
(* service through two concurrent requests                                 *)
(***************************************************************************)
\* The tickers the KRX listing and the KIS master files carry.
KrxTickers == {"005930.KS", "035720.KQ"}

\* StockProvider._load_ticker_cache: on success the three class-level caches
\* are filled and the flag is set; a failed listing download is logged and
\* leaves them as they were.
_load_ticker_cache(tables, listing_ok) ==
    IF tables._is_cache_loaded \/ ~listing_ok THEN tables
    ELSE [tables EXCEPT !._ticker_cache = KrxTickers,
                        !._fundamental_cache = KrxTickers,
                        !._is_cache_loaded = TRUE]

\* KisMasterService._parse_master_file over both master files: one entry per
\* listed ticker in each of the two maps.
_parse_master_file(tables) ==
    [tables EXCEPT !._name_to_code = @ \cup KrxTickers,
                   !._code_to_detail = @ \cup KrxTickers]

\* StockService.__init__ (lines 25-46): StockProvider() unless a provider is
\* passed, then KisMasterService() and its load_master_data(), whose failure
\* is logged and leaves the maps empty and _loaded False.
Construct ==
    /\ op = "init"
    /\ op' = "ready"
    /\ \E listing_ok \in BOOLEAN, download_ok \in BOOLEAN :
          LET loaded == IF provider = "StockProvider"
                        THEN _load_ticker_cache(master, listing_ok)
                        ELSE master
          IN  master' = IF download_ok
                        THEN [_parse_master_file(loaded) EXCEPT !._loaded = TRUE]
                        ELSE loaded
    /\ UNCHANGED <<info, stock, fdr_data, result, db, now, io, provider,
                   token, pc>>

\* A step of request r that touches nothing but its own position.
Goto(r, position) ==
    /\ pc' = [pc EXCEPT ![r] = position]
    /\ UNCHANGED <<info, stock, fdr_data, op, result, db, now, io, provider,
                   token>>

\* search_ticker (provider.py 98-112): reads _ticker_cache.
SearchTicker(r) ==
    /\ op = "ready"
    /\ pc[r].at = "idle"
    /\ \E query \in Queries : Goto(r, [at |-> "done", ticker |-> query])
    /\ UNCHANGED master

\* get_stock_info, lines 52-247: a request that gets no record from its
\* provider ends there; one that does has its payload and goes on to the
\* KIS master lookup.
Fetch(r) ==
    /\ op = "ready"
    /\ pc[r].at = "idle"
    /\ \E ticker \in Keys :
          Goto(r, [at |-> IF provider = "YahooStockProvider"
                          THEN "fetched" ELSE "done",
                   ticker |-> ticker])
    /\ UNCHANGED master

\* Lines 251-253: only a domestic ticker consults the master, and the
\* request loads it when it finds _loaded False.
CheckLoaded(r) ==
    /\ pc[r].at = "fetched"
    /\ Goto(r, [pc[r] EXCEPT !.at =
                  IF ~is_korean_ticker(pc[r].ticker) THEN "done"
                  ELSE IF master._loaded THEN "lookup" ELSE "load"])
    /\ UNCHANGED master

\* load_master_data, lines 344-368: returns at once when the data is loaded
\* by now, else downloads the two master files.
Download(r) ==
    /\ pc[r].at = "load"
    /\ \E download_ok \in BOOLEAN :
          Goto(r, [pc[r] EXCEPT !.at =
                     IF master._loaded \/ ~download_ok THEN "lookup"
                     ELSE "parse"])
    /\ UNCHANGED master

\* load_master_data, lines 370-374: parses the files into the two maps.
Parse(r) ==
    /\ pc[r].at = "parse"
    /\ master' = _parse_master_file(master)
    /\ Goto(r, [pc[r] EXCEPT !.at = "parsed"])

\* load_master_data, lines 376-380.
SetLoaded(r) ==
    /\ pc[r].at = "parsed"
    /\ master' = [master EXCEPT !._loaded = TRUE]
    /\ Goto(r, [pc[r] EXCEPT !.at = "lookup"])

\* get_name_by_ticker (service.py 256): reads _code_to_detail.
Lookup(r) ==
    /\ pc[r].at = "lookup"
    /\ Goto(r, [pc[r] EXCEPT !.at = "done"])
    /\ UNCHANGED master

InitTables ==
    /\ info = Blank
    /\ stock = NoStock
    /\ fdr_data = NoFdr
    /\ op = "init"
    /\ result = None
    /\ db = EmptyTable
    /\ now = 0
    /\ io = <<>>
    /\ provider \in Providers
    /\ NoService

NextTables ==
    \/ Construct
    \/ \E r \in Requests :
          \/ SearchTicker(r)
          \/ Fetch(r)
          \/ CheckLoaded(r)
          \/ Download(r)
          \/ Parse(r)
          \/ SetLoaded(r)
          \/ Lookup(r)

SpecTables == InitTables /\ [][NextTables]_vars

\* The four lookup tables, without the flags that guard them.
LookupTables(tables) ==
    <<tables._ticker_cache, tables._fundamental_cache,
      tables._name_to_code, tables._code_to_detail>>

\* C28: once the construction of the service has finished, with or without
\* a successful load, no step of a get_stock_info or search_ticker request
\* writes the lookup tables.
C28_TablesReadOnlyAfterStartup ==
    [][op = "ready" => LookupTables(master') = LookupTables(master)]_vars

(***************************************************************************)
(* SpecToken: AccessTokenManager (token_manager.py) under a clock          *)
(***************************************************************************)
MaxClock == 10

Tokens == {"token-a", "token-b"}

\* Lifetimes the token endpoint grants, in clock steps: 3 and 4 hours.
ExpiresInInputs == {3 * Hour, 4 * Hour}

\* is_token_valid: the token and expiry passed, else the stored ones; valid
\* while more than an hour remains before the expiry.
is_token_valid(tm, access_token, expires_at, time) ==
    LET tok == IF access_token # "" THEN access_token ELSE tm._access_token
        expires == IF expires_at # -1 THEN expires_at
                   ELSE tm._token_expires_at
    IN  IF tok = "" \/ expires = -1 THEN FALSE
        ELSE expires - time > Hour

\* save_token: memory first, then the file, both with the expiry
\* now + expires_in - 3600; a failed file write raises after the memory
\* was set.
save_token(tm, access_token, expires_in, time, file_ok) ==
    [tm EXCEPT !._access_token = access_token,
               !._token_expires_at = time + expires_in - Hour,
               !.file = IF file_ok
                        THEN [access_token |-> access_token,
                              timestamp |-> time + expires_in - Hour]
                        ELSE @]

\* The manager after get_token: untouched when the stored token is valid,
\* else loaded from the file, and cleared when the loaded token is not
\* valid either.
get_token_loaded(tm, time) ==
    IF is_token_valid(tm, "", -1, time) \/ tm.file = NoFile THEN tm
    ELSE LET loaded == [tm EXCEPT !._access_token = tm.file.access_token,
                                  !._token_expires_at = tm.file.timestamp]
         IN  IF is_token_valid(loaded, "", -1, time) THEN loaded
             ELSE [tm EXCEPT !._access_token = "", !._token_expires_at = -1]

\* get_token: the stored token when it is valid, "" (None) otherwise.
get_token(tm, time) ==
    LET after == get_token_loaded(tm, time)
    IN  IF is_token_valid(after, "", -1, time) THEN after._access_token
        ELSE ""

SaveToken ==
    /\ \E access_token \in Tokens, expires_in \in ExpiresInInputs,
          file_ok \in BOOLEAN :
          /\ token' = save_token(token, access_token, expires_in, now, file_ok)
          /\ result' = IF file_ok THEN [raised |-> "none"] ELSE Raise("OSError")
    /\ op' = "save_token"
    /\ UNCHANGED <<info, stock, fdr_data, db, now, io, provider, master, pc>>

GetToken ==
    /\ token' = get_token_loaded(token, now)
    /\ result' = [access_token |-> get_token(token, now)]
    /\ op' = "get_token"
    /\ UNCHANGED <<info, stock, fdr_data, db, now, io, provider, master, pc>>

Advance ==
    /\ now < MaxClock
    /\ now' = now + 1
    /\ op' = "tick"
    /\ UNCHANGED <<info, stock, fdr_data, result, db, io, provider, master,
                   token, pc>>

InitToken ==
    /\ info = Blank
    /\ stock = NoStock
    /\ fdr_data = NoFdr
    /\ op = "init"
    /\ result = [raised |-> "none"]
    /\ db = EmptyTable
    /\ now = 0
    /\ io = <<>>
    /\ provider = "KisStockProvider"
    /\ NoService

NextToken == SaveToken \/ GetToken \/ Advance

SpecToken == InitToken /\ [][NextToken]_vars

\* The manager holds the token of its last completed save_token and no
\* other: the file has it and the memory has the same or nothing.
HoldsSavedToken ==
    /\ token.file # NoFile
    /\ \/ token._access_token = ""
       \/ /\ token._access_token = token.file.access_token
          /\ token._token_expires_at = token.file.timestamp

\* C29: after save_token(token, expires_in) at t0, get_token returns that
\* token at every time t < t0 + expires_in - 3600 (the timestamp the file
\* records) and none from then on, an hour before the actual expiry.
C29_RenewedOneHourBeforeExpiry ==
    op = "get_token" /\ HoldsSavedToken =>
       result.access_token =
          (IF now < token.file.timestamp THEN token.file.access_token ELSE "")

\* C29, as the code behaves: the saved token is returned exactly while
\* more than two hours remain before its actual expiry, which is an hour
\* after the recorded timestamp, so never past the expiry.
C29_ReturnedUntilTwoHoursBefore ==
    op = "get_token" /\ HoldsSavedToken =>
       result.access_token =
          (IF now < token.file.timestamp - Hour THEN token.file.access_token
           ELSE "")

(***************************************************************************)
(* SpecRace: two get_stock_info calls on one ticker, each with its own     *)
(* session, their cache steps interleaved                                  *)
(***************************************************************************)
\* The two spellings callers use for the one ticker.
RaceTickers == {"aapl", "AAPL"}

\* A row an earlier call left under the ticker at the given time.
EarlierRow(time) ==
    [updated_at |-> time, price |-> Num(90),
     analysis_json |->
        [stock_data |-> get_stock_info([Blank EXCEPT !.current_price = Num(90)],
                                       FALSE),
         news |-> <<>>]]

\* Lines 60-67: the freshness query; a hit returns the cached payload.
ReadCache(r) ==
    /\ pc[r].at = "idle"
    /\ LET cached_log == cache_query(db, upper(pc[r].ticker), now - Hour)
       IN  IF cached_log # NoRow
           THEN /\ result' = [result EXCEPT ![r] = cached_log.analysis_json]
                /\ pc' = [pc EXCEPT ![r] = [at |-> "done", hit |-> TRUE]]
           ELSE /\ pc' = [pc EXCEPT ![r] = [at |-> "miss",
                                            ticker |-> pc[r].ticker]]
                /\ UNCHANGED result
    /\ UNCHANGED <<info, stock, fdr_data, op, db, now, io, provider, master,
                   token>>

\* Lines 70-295: the record and the headlines from the Yahoo provider, which
\* raises on no input, and the payload computed from them.
Recompute(r) ==
    /\ pc[r].at = "miss"
    /\ \E raw \in YahooRecords, news \in NewsInputs :
          pc' = [pc EXCEPT ![r] =
                   [at |-> "computed", ticker |-> pc[r].ticker,
                    payload |->
                       [stock_data |->
                           get_stock_info(
                              yahoo_get_stock_info(raw, [history |-> <<>>]),
                              FALSE),
                        news |-> news]]]
    /\ UNCHANGED <<info, stock, fdr_data, op, result, db, now, io, provider,
                   master, token>>

\* _save_to_db, line 403: the call's session looks the row up.
SaveQuery(r) ==
    /\ pc[r].at = "computed"
    /\ pc' = [pc EXCEPT ![r] =
                [at |-> "queried", ticker |-> pc[r].ticker,
                 payload |-> pc[r].payload,
                 log |-> db[upper(pc[r].ticker)] # NoRow]]
    /\ UNCHANGED <<info, stock, fdr_data, op, result, db, now, io, provider,
                   master, token>>

\* _save_to_db, lines 404-412, and the return of line 299: an UPDATE of the
\* row found commits; an INSERT commits unless the other call has inserted
\* the primary key (models/stock.py 12) meanwhile, and then the
\* IntegrityError is caught and rolled back.  The payload is returned either
\* way.
SaveCommit(r) ==
    /\ pc[r].at = "queried"
    /\ LET commit_ok == pc[r].log \/ db[upper(pc[r].ticker)] = NoRow
       IN  /\ db' = _save_to_db(db, pc[r].ticker, pc[r].payload.stock_data,
                                pc[r].payload.news, now, commit_ok)
           /\ pc' = [pc EXCEPT ![r] = [at |-> "done", hit |-> FALSE,
                                       log |-> pc[r].log,
                                       committed |-> commit_ok]]
    /\ result' = [result EXCEPT ![r] = pc[r].payload]
    /\ UNCHANGED <<info, stock, fdr_data, op, now, io, provider, master,
                   token>>

InitRace ==
    /\ info = Blank
    /\ stock = NoStock
    /\ fdr_data = NoFdr
    /\ op = "get_stock_info"
    /\ result = [r \in Requests |-> [raised |-> "none"]]
    /\ db \in {EmptyTable} \cup
              {[EmptyTable EXCEPT !["AAPL"] = EarlierRow(time)] :
                 time \in {0, MaxTime - 1}}
    /\ now = MaxTime
    /\ io = <<>>
    /\ provider = "YahooStockProvider"
    /\ master = NoTables
    /\ token = NoToken
    /\ pc \in [Requests -> {[at |-> "idle", ticker |-> ticker] :
                              ticker \in RaceTickers}]

NextRace ==
    \E r \in Requests :
       ReadCache(r) \/ Recompute(r) \/ SaveQuery(r) \/ SaveCommit(r)

SpecRace == InitRace /\ [][NextRace]_vars

BothDone == \A r \in Requests : pc[r].at = "done"

\* A complete payload: the stock data with its score, and the headlines.
CompletePayload(x) ==
    /\ DOMAIN x = {"stock_data", "news"}
    /\ {"current_price", "pe_ratio", "pb_ratio", "score"}
          \subseteq DOMAIN x.stock_data

\* C30: two get_stock_info calls on the same ticker whose cache reads and
\* writes interleave in any order both return a complete payload, neither
\* fails because of the other's write, and afterwards the table holds one
\* row, under the upper-cased ticker, with the payload one of the two calls
\* returned.
C30_BothReturnOneRowRemains ==
    BothDone =>
       /\ \A r \in Requests : CompletePayload(result[r])
       /\ db["AAPL"] # NoRow
       /\ \E r \in Requests : db["AAPL"].analysis_json = result[r]
       /\ \A key \in Keys \ {"AAPL"} : db[key] = NoRow

\* C30 witness: both calls missed and recomputed different payloads, both
\* tried to insert the row, and the second insert was rolled back.
C30_Witness ==
    /\ BothDone
    /\ \A r \in Requests : ~pc[r].hit /\ ~pc[r].log
    /\ pc["r1"].committed /\ ~pc["r2"].committed
    /\ result["r1"] # result["r2"]
    /\ db["AAPL"].analysis_json = result["r1"]

====
